---------------------------- MODULE Spec2Model ----------------------------
(***************************************************************************)
(* structsql: the statement builders (Insert, Update, Delete), the type   *)
(* descriptor cache and the placeholder dialects of an Engine             *)
(* (type Structsql).                                                       *)
(*                                                                         *)
(* Text is a sequence of one-character strings, so that lowercasing,      *)
(* decimal rendering and the reuse of the Engine's buffer are modelled    *)
(* byte by byte.                                                          *)
(***************************************************************************)
EXTENDS Integers, Sequences, FiniteSets, TLC

\* ------------------------------------------------------------------ bounds

\* Builder calls the caller makes in one behaviour.
MaxCalls == 2

\* --------------------------------------------------------------- constants

\* var columns [32]string / var setColumns [32]string
MaxColumns == 32
\* make([]typeCacheEntry, 0, 16)
TypeCacheCap == 16
\* Bytes of the buffer GetConv() hands out (tinystring allocates 64).
BuffCap == 64

\* -------------------------------------------------------------------- text

UpperCase == <<"A","B","C","D","E","F","G","H","I","J","K","L","M",
               "N","O","P","Q","R","S","T","U","V","W","X","Y","Z">>
LowerCase == <<"a","b","c","d","e","f","g","h","i","j","k","l","m",
               "n","o","p","q","r","s","t","u","v","w","x","y","z">>

\* One byte lowercased: an upper-case letter maps to its lower-case letter,
\* every other byte is kept.
LowerChar(c) ==
    IF \E i \in 1..26 : UpperCase[i] = c
    THEN LowerCase[CHOOSE i \in 1..26 : UpperCase[i] = c]
    ELSE c

DigitChar(d) == <<"0","1","2","3","4","5","6","7","8","9">>[d + 1]

\* The decimal digits of n >= 0, most significant first.
RECURSIVE Decimal(_)
Decimal(n) == IF n < 10 THEN <<DigitChar(n)>>
              ELSE Decimal(n \div 10) \o <<DigitChar(n % 10)>>


\* String literals of the source, byte by byte.
S_id          == <<"i","d">>
S_id_         == <<"i","d","_">>
S__id         == <<"_","i","d">>
S_struct      == <<"s","t","r","u","c","t">>
S_comma       == <<",", " ">>
S_eq          == <<"=">>
S_dollar      == <<"$">>
S_question    == <<"?">>
S_INSERT_INTO == <<"I","N","S","E","R","T"," ","I","N","T","O"," ">>
S_open        == <<" ","(">>
S_VALUES      == <<")"," ","V","A","L","U","E","S"," ","(">>
S_close       == <<")">>
S_UPDATE      == <<"U","P","D","A","T","E"," ">>
S_SET         == <<" ","S","E","T"," ">>
S_WHERE_id    == <<" ","W","H","E","R","E"," ","i","d","=">>
S_DELETE_FROM == <<"D","E","L","E","T","E"," ","F","R","O","M"," ">>

\* Error messages of the source (the error kinds of the specification).
ErrNone            == "ok"
ErrNoStructTable   == "no struct table provided"
ErrNotStruct       == "input is not a struct"
ErrNoStructNamer   == "struct does not implement StructNamer interface"
ErrNoFields        == "struct has no fields"
ErrNoPrimaryKey    == "struct must have a primary key field"
ErrNoFieldsToUpd   == "no fields to update"
\* A run-time panic (index out of range): the call does not return.
Panic              == "panic: index out of range"

\* ------------------------------------------------- record types and values

IntV(n)  == [k |-> "int",    v |-> n]
StrV(s)  == [k |-> "string", v |-> s]

\* Values of the other kinds. A signed integer or a float is its number. An
\* unsigned integer is its own number and the number made by the bytes that
\* follow the field in memory, up to the eighth byte from the field's address.
\* A pointer or an interface is absent (nil, 0) or not (1); a slice or a map is
\* absent (-1) or has a length; a struct is the sequence of its fields' values.
NumV(kind, n)           == [k |-> kind, v |-> n]
UintV(kind, own, after) == [k |-> kind, v |-> [own |-> own, after |-> after]]
BoolV(b)                == [k |-> "bool", v |-> b]
RefV(kind, absent)      == [k |-> kind, v |-> IF absent THEN 0 ELSE 1]
SeqV(kind, absent, len) == [k |-> kind, v |-> IF absent THEN -1 ELSE len]
StructV(fields)         == [k |-> "struct", v |-> fields]
OtherV(kind)            == [k |-> kind, v |-> 0]

IntKinds   == {"int", "int8", "int16", "int32", "int64"}
UintKinds  == {"uint", "uint8", "uint16", "uint32", "uint64", "uintptr"}
FloatKinds == {"float32", "float64"}

\* A declared field: its name, the kind of its value, and its struct tag.
Tagged(name, kind, tag) == [name |-> name, kind |-> kind, tag |-> tag]

F(name, kind) == Tagged(name, kind, <<>>)

\* The 34 fields of type Wide: ID, F1 .. F33.
WideFields == [i \in 1..34 |->
                 IF i = 1 THEN F(<<"I","D">>, "int")
                 ELSE F(<<"F">> \o Decimal(i - 1), "int")]

\* The types of the values a caller passes as structTable. User is the type of
\* the tests; the others vary the place of the key, the key's name, the number
\* of fields and the kind of the value.
\* T1 .. T17 are as many one-field types as fill the type cache, and one more.
FillerCount == TypeCacheCap + 1

FillerType(k) == "T" \o ToString(k)

FillerTypes == { FillerType(k) : k \in 1..FillerCount }

FillerIndex(t) == CHOOSE k \in 1..FillerCount : FillerType(k) = t

StructTypes == {"User", "Item", "Tag", "Log", "Dual", "Empty", "Wide", "Anon",
                "Job", "Staff", "Bag"} \cup FillerTypes
OtherTypes  == {"int", "slice", "pointer"}

\* tinyreflect: Type.Kind()
Kind(t) == IF t \in StructTypes THEN "struct" ELSE t

\* tinyreflect: Type.Name(): the StructName() of the value, and "struct" for a
\* struct type that has none.
Name(t) ==
    CASE t = "User"  -> <<"U","s","e","r">>
      [] t = "Item"  -> <<"I","t","e","m">>
      [] t = "Tag"   -> <<"T","a","g">>
      [] t = "Log"   -> <<"L","o","g">>
      [] t = "Dual"  -> <<"D","u","a","l">>
      [] t = "Empty" -> <<"E","m","p","t","y">>
      [] t = "Wide"  -> <<"W","i","d","e">>
      [] t = "Job"   -> <<"J","o","b">>
      [] t = "Staff" -> <<"S","t","a","f","f">>
      [] t = "Bag"   -> <<"B","a","g">>
      [] t = "Anon"  -> S_struct
      [] t \in FillerTypes -> <<"T">> \o Decimal(FillerIndex(t))
      [] OTHER       -> <<>>

\* tinyreflect: Type.NumField() / Type.Field(i): the declared fields, in order.
DeclFields(t) ==
    CASE t = "User"  -> <<Tagged(<<"I","D">>, "int", <<"i","d",",","p","k">>),
                          Tagged(<<"N","a","m","e">>, "string", <<"n","a","m","e">>),
                          Tagged(<<"E","m","a","i","l">>, "string", <<"e","m","a","i","l">>)>>
      [] t = "Item"  -> <<F(<<"N","a","m","e">>, "string"), F(<<"I","D">>, "int"),
                          F(<<"Q","t","y">>, "int")>>
      [] t = "Tag"   -> <<F(<<"L","a","b","e","l">>, "string"),
                          F(<<"T","a","g","I","D">>, "int")>>
      [] t = "Log"   -> <<F(<<"M","s","g">>, "string"), F(<<"L","e","v","e","l">>, "int")>>
      [] t = "Dual"  -> <<F(<<"D","u","a","l","I","D">>, "int"), F(<<"I","D">>, "int")>>
      [] t = "Wide"  -> WideFields
      [] t = "Job"   -> <<F(<<"I","D","J","o","b">>, "int")>>
      [] t = "Staff" -> <<F(<<"U","s","e","r","N","a","m","e">>, "string"),
                          F(<<"I","D","_","S","t","a","f","f">>, "int")>>
      [] t = "Bag"   -> <<F(<<"I","D">>, "int"), F(<<"I","t","e","m","s">>, "slice")>>
      [] t = "Anon"  -> <<F(<<"I","D">>, "int"), F(<<"N","a","m","e">>, "string")>>
      [] t \in FillerTypes -> <<F(<<"I","D">>, "int")>>
      [] OTHER       -> <<>>

\* A value passed as structTable: its dynamic type and, for a struct, the values
\* of its fields in declared order. NilArg is the nil interface.
Arg(t, vals) == [typ |-> t, vals |-> vals]
NilArg       == Arg("nil", <<>>)

Alice == <<"A","l","i","c","e">>
Mail  == <<"a","@","x">>

\* Wide with every field set: 33 non-zero fields beside the key.
WideFull == Arg("Wide", [i \in 1..34 |-> IntV(100 + i)])

Args ==
    { NilArg, Arg("int", <<>>), Arg("slice", <<>>), Arg("pointer", <<>>),
      Arg("Anon",  <<IntV(1), StrV(Alice)>>),
      Arg("Empty", <<>>),
      Arg("User",  <<IntV(1), StrV(Alice), StrV(Mail)>>),
      Arg("User",  <<IntV(1), StrV(<<>>),  StrV(Mail)>>),
      Arg("User",  <<IntV(2), StrV(<<>>),  StrV(<<>>)>>),
      Arg("User",  <<IntV(0), StrV(<<>>),  StrV(<<>>)>>),
      Arg("Job",   <<IntV(3)>>),
      Arg("Staff", <<StrV(Alice), IntV(4)>>),
      Arg("Item",  <<StrV(Alice), IntV(7), IntV(3)>>),
      Arg("Tag",   <<StrV(Mail), IntV(9)>>),
      Arg("Log",   <<StrV(Alice), IntV(4)>>),
      Arg("Dual",  <<IntV(5), IntV(6)>>),
      Arg("Bag",   <<IntV(1), SeqV("slice", FALSE, 0)>>),
      WideFull }

\* The size in bytes of an unsigned integer (a 64-bit build).
UintSize(kind) ==
    CASE kind = "uint8"  -> 1
      [] kind = "uint16" -> 2
      [] kind = "uint32" -> 4
      [] OTHER           -> 8

\* *(*uint64)(v.ptr): the eight bytes at the field's address, the field's own
\* bytes (low) and the bytes after them (high).
ReadUint64(val) ==
    [low  |-> val.v.own,
     high |-> IF UintSize(val.k) < 8 THEN val.v.after ELSE 0]

\* tinyreflect: Value.IsZero() (documented implementation).
RECURSIVE IsZero(_)
IsZero(val) ==
    CASE val.k = "string"     -> val.v = <<>>
      [] val.k \in IntKinds   -> val.v = 0
      [] val.k \in UintKinds  -> ReadUint64(val) = [low |-> 0, high |-> 0]
      [] val.k \in FloatKinds -> val.v = 0
      [] val.k = "bool"       -> ~val.v
      [] val.k \in {"pointer", "interface"} -> val.v = 0
      [] val.k \in {"slice", "map"}         -> val.v = -1
      [] val.k = "struct"     -> \A i \in 1..Len(val.v) : IsZero(val.v[i])
      [] OTHER                -> FALSE

\* tinystring: IDorPrimaryKey(tableName, fieldName), second result.
IDorPrimaryKey(tableStr, fieldName) ==
    \/ fieldName = S_id
    \/ fieldName = tableStr \o S_id
    \/ fieldName = tableStr \o S__id
    \/ fieldName = S_id \o tableStr
    \/ fieldName = S_id_ \o tableStr

\* ------------------------------------------------- the Conv buffer BuffOut

\* A Conv's BuffOut: arr is the backing array as far as it was ever written,
\* len the length in use (outLen), cap the array's capacity. moved and old record,
\* within one builder call, that an append reallocated the array and what the
\* array the call started with then held: a text handed out earlier by
\* GetStringZeroCopy still points into that array.
NewConv == [arr |-> <<>>, len |-> 0, cap |-> BuffCap, moved |-> FALSE, old |-> <<>>]

\* Go's append: the capacity of the array that replaces one of capacity cap
\* when n bytes are needed (below 256 bytes the capacity doubles).
GrowCap(cap, n) == IF n > 2 * cap THEN n ELSE 2 * cap

ResetBuffer(c) == [c EXCEPT !.len = 0]

\* c.out = append(c.out[:c.outLen], s...)
WrString(c, s) ==
    LET n == c.len + Len(s)
    IN  IF n <= c.cap
        THEN [c EXCEPT !.arr = SubSeq(c.arr, 1, c.len) \o s
                               \o SubSeq(c.arr, n + 1, Len(c.arr)),
                       !.len = n]
        ELSE [arr   |-> SubSeq(c.arr, 1, c.len) \o s,
              len   |-> n,
              cap   |-> GrowCap(c.cap, n),
              moved |-> TRUE,
              old   |-> IF c.moved THEN c.old ELSE c.arr]

\* Lowercases the bytes in use, in place.
LowerText(text) == [i \in 1..Len(text) |-> LowerChar(text[i])]

ToLower(c) ==
    [c EXCEPT !.arr = LowerText(SubSeq(c.arr, 1, c.len))
                      \o SubSeq(c.arr, c.len + 1, Len(c.arr))]

\* A copy of the bytes in use.
GetString(c) == SubSeq(c.arr, 1, c.len)

\* conv.AnyToBuff(BuffOut, index): the decimal digits of index.
AnyToBuff(c, index) == WrString(c, Decimal(index))

\* ------------------------------------------------------------- dialects

PostgreSQL == "postgres"
SQLite     == "sqlite"

\* A numbering that starts from 0.
placeholderPostgreFromZero(index, conv) ==
    AnyToBuff(WrString(conv, S_dollar), index - 1)

placeholderPostgre(index, conv) == AnyToBuff(WrString(conv, S_dollar), index)

\* A dialect that writes nothing where a placeholder belongs.
placeholderNone(index, conv) == conv

placeholderSQLite(index, conv) == WrString(conv, S_question)

\* dbType.placeholder: a dbType that is neither constant writes nothing.
placeholder(d, index, conv) ==
    CASE d = PostgreSQL -> placeholderPostgre(index, conv)
      [] d = SQLite     -> placeholderSQLite(index, conv)
      [] OTHER          -> conv

\* An argument of New: a value of type dbType, or of another type.
DbTypeValue(s) == [type |-> "dbType", v |-> s]
OtherValue(s)  == [type |-> "string", v |-> s]

\* A parse that takes the first dbType among all the arguments.
NewDbTypeAny(configs) ==
    IF \E i \in 1..Len(configs) : configs[i].type = "dbType"
    THEN configs[CHOOSE i \in 1..Len(configs) :
                    /\ configs[i].type = "dbType"
                    /\ \A h \in 1..(i - 1) : configs[h].type # "dbType"].v
    ELSE PostgreSQL

\* New(configs ...any): the dialect of the Engine.
NewDbType(configs) ==
    IF Len(configs) > 0 /\ configs[1].type = "dbType"
    THEN configs[1].v
    ELSE PostgreSQL

\* New(configs ...any): an Engine with an empty cache and its own Conv.
New(configs) ==
    [typeCache |-> <<>>, convPool |-> NewConv, dbType |-> NewDbType(configs)]

\* ------------------------------------------------ helpers of the builders

\* Field indices are 1-based here; 0 stands for the source's -1 (no such field).

\* validateStruct: the type of structTable, or the error.
validateStruct(structTable) ==
    IF structTable.typ = "nil" THEN [typ |-> "nil", err |-> ErrNoStructTable]
    ELSE IF Kind(structTable.typ) # "struct"
         THEN [typ |-> "nil", err |-> ErrNotStruct]
    ELSE IF Name(structTable.typ) = S_struct
         THEN [typ |-> "nil", err |-> ErrNoStructNamer]
    ELSE [typ |-> structTable.typ, err |-> ErrNone]

\* A setup that leaves BuffOut as the call before left it.
setupConvKeep(conv) == conv

\* setupConv: the Engine's Conv with BuffOut reset.
setupConv(conv) == ResetBuffer(conv)

\* A table name with an s appended after the lowercasing.
getTableNamePlural(conv, typ) ==
    LET w == WrString(ToLower(WrString(conv, Name(typ))), <<"s">>)
    IN  [conv |-> ResetBuffer(w), tableStr |-> GetString(w)]

\* getTableName: the type's name lowercased in BuffOut, copied out, BuffOut reset.
getTableName(conv, typ) ==
    LET w == ToLower(WrString(conv, Name(typ)))
    IN  [conv |-> ResetBuffer(w), tableStr |-> GetString(w)]

\* The loop of getTypeInfo over the declared fields lo..hi: each name is written
\* to BuffOut, lowercased, copied out, and BuffOut is reset. (The range is split
\* in halves only to keep the evaluation shallow: the fields are still visited
\* in order, each from the buffer the one before it left.)
\* Statements run in program order: first is computed before then.
InOrder(first, then) == IF first = first THEN then ELSE then

RECURSIVE BuildFields(_, _, _, _)
BuildFields(conv, decl, lo, hi) ==
    IF lo > hi THEN [conv |-> conv, fields |-> <<>>]
    ELSE IF lo = hi
    THEN LET w == ToLower(WrString(conv, decl[lo].name))
         IN  [conv |-> ResetBuffer(w), fields |-> <<[Name |-> GetString(w)]>>]
    ELSE LET mid   == (lo + hi) \div 2
             left  == BuildFields(conv, decl, lo, mid)
             right == BuildFields(left.conv, decl, mid + 1, hi)
         IN  InOrder(left, [conv |-> right.conv, fields |-> left.fields \o right.fields])

\* A lookup that takes the first entry whatever its type.
CacheIndexFirst(typeCache, typPtr) == IF Len(typeCache) > 0 THEN 1 ELSE 0

\* A lookup that finds nothing.
CacheIndexNone(typeCache, typPtr) == 0

\* The cache lookup of getTypeInfo: the index of the first entry of the type, or 0.
CacheIndex(typeCache, typPtr) ==
    IF \E j \in 1..Len(typeCache) : typeCache[j].typePtr = typPtr
    THEN CHOOSE j \in 1..Len(typeCache) :
            /\ typeCache[j].typePtr = typPtr
            /\ \A h \in 1..(j - 1) : typeCache[h].typePtr # typPtr
    ELSE 0

\* A store without the test len < cap: append grows the slice.
CacheStoreAlways(typeCache, entry) == Append(typeCache, entry)

\* A store that, when the cache is full, puts the entry in the last place.
CacheStoreEvict(typeCache, entry) ==
    IF Len(typeCache) < TypeCacheCap
    THEN Append(typeCache, entry)
    ELSE [typeCache EXCEPT ![Len(typeCache)] = entry]

\* if len(s.typeCache) < cap(s.typeCache) { s.typeCache = append(...) }
CacheStore(typeCache, entry) ==
    IF Len(typeCache) < TypeCacheCap
    THEN Append(typeCache, entry)
    ELSE typeCache

\* getTypeInfo: the cached descriptor of the type, or a new one, which is
\* appended to the cache while the cache has room.
getTypeInfo(typeCache, conv, typ) ==
    LET j == CacheIndex(typeCache, typ)
    IN  IF j # 0
        THEN [typeCache |-> typeCache, conv |-> conv,
              info |-> typeCache[j].info, hit |-> TRUE]
        ELSE LET b    == BuildFields(conv, DeclFields(typ), 1, Len(DeclFields(typ)))
                 info == [fields |-> b.fields]
             IN  [typeCache |-> CacheStore(typeCache, [typePtr |-> typ, info |-> info]),
                  conv |-> b.conv, info |-> info, hit |-> FALSE]

\* A search that starts from idIndex := 0, the first field, instead of -1.
findIdFieldFirst(tableStr, fields, required) ==
    IF \E i \in 1..Len(fields) : IDorPrimaryKey(tableStr, fields[i].Name)
    THEN [idIndex |-> CHOOSE i \in 1..Len(fields) :
                        /\ IDorPrimaryKey(tableStr, fields[i].Name)
                        /\ \A h \in 1..(i - 1) : ~IDorPrimaryKey(tableStr, fields[h].Name),
          err |-> ErrNone]
    ELSE IF Len(fields) > 0 THEN [idIndex |-> 1, err |-> ErrNone]
    ELSE [idIndex |-> 0, err |-> ErrNoPrimaryKey]

\* A search without the break, which keeps the last field that matches.
findIdFieldLast(tableStr, fields, required) ==
    IF \E i \in 1..Len(fields) : IDorPrimaryKey(tableStr, fields[i].Name)
    THEN [idIndex |-> CHOOSE i \in 1..Len(fields) :
                        /\ IDorPrimaryKey(tableStr, fields[i].Name)
                        /\ \A h \in (i + 1)..Len(fields) :
                              ~IDorPrimaryKey(tableStr, fields[h].Name),
          err |-> ErrNone]
    ELSE [idIndex |-> 0, err |-> IF required THEN ErrNoPrimaryKey ELSE ErrNone]

\* findIdField: the first field whose name is a primary key name, or the error.
findIdField(tableStr, fields, required) ==
    LET found == \E i \in 1..Len(fields) : IDorPrimaryKey(tableStr, fields[i].Name)
        idIndex == IF found
                   THEN CHOOSE i \in 1..Len(fields) :
                          /\ IDorPrimaryKey(tableStr, fields[i].Name)
                          /\ \A h \in 1..(i - 1) : ~IDorPrimaryKey(tableStr, fields[h].Name)
                   ELSE 0
    IN  IF idIndex = 0 /\ required
        THEN [idIndex |-> 0, err |-> ErrNoPrimaryKey]
        ELSE [idIndex |-> idIndex, err |-> ErrNone]

\* A builder that appended to *values as the caller passed it.
KeepValues(values) == values

\* (*values)[:0]
ClearValues(values) == SubSeq(values, 1, 0)

\* The values of the fields idx, in that order (Value.Field(i), Interface()).
FieldValues(vals, idx) == [j \in 1..Len(idx) |-> vals[idx[j]]]

\* A string over the whole array, the bytes beyond the length in use included.
GetStringZeroCopyAll(c) == Len(c.arr)

\* c.GetStringZeroCopy(BuffOut): a string over the bytes in use of the array of
\* BuffOut, not a copy of them; its length.
GetStringZeroCopy(c) == c.len

\* What a builder call leaves: the Engine, the error, whether *sql and *values
\* were assigned and with what, and the table name, descriptor, key index and SET
\* fields the call worked with.
Outcome(eng, err, wrote, values, tableStr, info, hit, idIndex, setIdx) ==
    [eng |-> eng, err |-> err, wrote |-> wrote, sqlLen |-> GetStringZeroCopy(eng.convPool),
     values |-> values, tableStr |-> tableStr, info |-> info, hit |-> hit,
     idIndex |-> idIndex, setIdx |-> setIdx]

\* A call that returns before it touches the Engine.
Rejected(s, err) ==
    Outcome(s, err, FALSE, <<>>, <<>>, [fields |-> <<>>], FALSE, 0, <<>>)

\* A call that ends, with err, after it used the buffer and the cache.
Failed(s, conv, typeCache, err, tableStr, info, hit, idIndex) ==
    Outcome([s EXCEPT !.convPool = conv, !.typeCache = typeCache],
            err, FALSE, <<>>, tableStr, info, hit, idIndex, <<>>)

\* ---------------------------------------------------------------- Delete

\* "DELETE FROM <table> WHERE id=<placeholder 1>" written to BuffOut.
DeleteSQL(conv, d, tableStr) ==
    placeholder(d, 1,
        WrString(WrString(WrString(conv, S_DELETE_FROM), tableStr), S_WHERE_id))

\* Structsql.Delete(structTable, sql, values) on Engine s; values is *values
\* as the caller passed it.
Delete(s, structTable, values) ==
    LET v == validateStruct(structTable)
    IN  IF v.err # ErrNone THEN Rejected(s, v.err)
        ELSE
        LET tn == getTableName(setupConv(s.convPool), v.typ)
            ti == getTypeInfo(s.typeCache, tn.conv, v.typ)
            id == findIdField(tn.tableStr, ti.info.fields, TRUE)
        IN  IF id.err # ErrNone
            THEN Failed(s, ti.conv, ti.typeCache, id.err, tn.tableStr, ti.info, ti.hit, 0)
            ELSE
            LET c == DeleteSQL(ti.conv, s.dbType, tn.tableStr)
            IN  Outcome([s EXCEPT !.convPool = c, !.typeCache = ti.typeCache],
                        ErrNone, TRUE,
                        Append(ClearValues(values), structTable.vals[id.idIndex]),
                        tn.tableStr, ti.info, ti.hit, id.idIndex, <<>>)

\* ---------------------------------------------------------------- Update

\* A collection loop without the test i != idIndex.
SetFieldsAll(vals, numFields, idIndex) ==
    SelectSeq([i \in 1..numFields |-> i], LAMBDA i : ~IsZero(vals[i]))

\* A loop that breaks at the key instead of going on to the next field.
SetFieldsUntilKey(vals, numFields, idIndex) ==
    SelectSeq([i \in 1..numFields |-> i],
              LAMBDA i : i < idIndex /\ ~IsZero(vals[i]))

\* The fields Update puts in the SET clause: every field but the key whose
\* value is not zero, in declared order.
SetFields(vals, numFields, idIndex) ==
    SelectSeq([i \in 1..numFields |-> i],
              LAMBDA i : i # idIndex /\ ~IsZero(vals[i]))

\* The SET clauses lo..hi: "<column>=<placeholder i>", ", " before every one
\* but the first.
RECURSIVE WrSetClauses(_, _, _, _, _)
WrSetClauses(conv, d, setColumns, lo, hi) ==
    IF lo > hi THEN conv
    ELSE IF lo = hi
    THEN LET c1 == IF lo > 1 THEN WrString(conv, S_comma) ELSE conv
             c2 == WrString(WrString(c1, setColumns[lo]), S_eq)
         IN  placeholder(d, lo, c2)
    ELSE LET mid == (lo + hi) \div 2
         IN  WrSetClauses(WrSetClauses(conv, d, setColumns, lo, mid),
                          d, setColumns, mid + 1, hi)

\* "UPDATE <table> SET ... WHERE id=<placeholder setCount+1>" written to BuffOut.
UpdateSQL(conv, d, tableStr, setColumns) ==
    LET c1 == WrString(WrString(WrString(conv, S_UPDATE), tableStr), S_SET)
        c2 == WrSetClauses(c1, d, setColumns, 1, Len(setColumns))
    IN  placeholder(d, Len(setColumns) + 1, WrString(c2, S_WHERE_id))

\* An Update that looks for the key before it tests numFields.
UpdateErrorKeyFirst(numFields, idErr, setCount) ==
    IF idErr # ErrNone THEN idErr
    ELSE IF numFields = 0 THEN ErrNoFields
    ELSE IF setCount > MaxColumns THEN Panic
    ELSE IF setCount = 0 THEN ErrNoFieldsToUpd
    ELSE ErrNone

\* How Update ends, in the order of its tests: numFields == 0, the error of
\* findIdField, setColumns[setCount] with setCount = 32 (index out of range),
\* setCount == 0.
UpdateError(numFields, idErr, setCount) ==
    IF numFields = 0 THEN ErrNoFields
    ELSE IF idErr # ErrNone THEN idErr
    ELSE IF setCount > MaxColumns THEN Panic
    ELSE IF setCount = 0 THEN ErrNoFieldsToUpd
    ELSE ErrNone

\* Structsql.Update(structTable, sql, values) on Engine s.
Update(s, structTable, values) ==
    LET v == validateStruct(structTable)
    IN  IF v.err # ErrNone THEN Rejected(s, v.err)
        ELSE
        LET tn == getTableName(setupConv(s.convPool), v.typ)
            ti == getTypeInfo(s.typeCache, tn.conv, v.typ)
            numFields == Len(ti.info.fields)
            id == findIdField(tn.tableStr, ti.info.fields, TRUE)
            setIdx == SetFields(structTable.vals, numFields, id.idIndex)
            setColumns == [j \in 1..Len(setIdx) |-> ti.info.fields[setIdx[j]].Name]
            err == UpdateError(numFields, id.err, Len(setIdx))
        IN  IF err # ErrNone
            THEN Failed(s, ti.conv, ti.typeCache, err, tn.tableStr, ti.info, ti.hit,
                        id.idIndex)
            ELSE
            LET c == UpdateSQL(ti.conv, s.dbType, tn.tableStr, setColumns)
            IN  Outcome([s EXCEPT !.convPool = c, !.typeCache = ti.typeCache],
                        ErrNone, TRUE,
                        Append(ClearValues(values) \o FieldValues(structTable.vals, setIdx),
                               structTable.vals[id.idIndex]),
                        tn.tableStr, ti.info, ti.hit, id.idIndex, setIdx)

\* ---------------------------------------------------------------- Insert

\* The column names lo..hi, ", " before every one but the first.
RECURSIVE WrColumns(_, _, _, _)
WrColumns(conv, columns, lo, hi) ==
    IF lo > hi THEN conv
    ELSE IF lo = hi
    THEN WrString(IF lo > 1 THEN WrString(conv, S_comma) ELSE conv, columns[lo])
    ELSE LET mid == (lo + hi) \div 2
         IN  WrColumns(WrColumns(conv, columns, lo, mid), columns, mid + 1, hi)

\* One "?" for each of the columns lo..hi, ", " before every one but the first.
RECURSIVE WrPlaceholders(_, _, _)
WrPlaceholders(conv, lo, hi) ==
    IF lo > hi THEN conv
    ELSE IF lo = hi
    THEN WrString(IF lo > 1 THEN WrString(conv, S_comma) ELSE conv, S_question)
    ELSE LET mid == (lo + hi) \div 2
         IN  WrPlaceholders(WrPlaceholders(conv, lo, mid), mid + 1, hi)

\* "INSERT INTO <table> (<columns>) VALUES (<placeholders>)" written to BuffOut.
InsertSQL(conv, tableStr, columns) ==
    LET c1 == WrString(WrString(WrString(conv, S_INSERT_INTO), tableStr), S_open)
        c2 == WrString(WrColumns(c1, columns, 1, Len(columns)), S_VALUES)
    IN  WrString(WrPlaceholders(c2, 1, Len(columns)), S_close)

\* The checks Insert makes itself on structTable.
InsertValidate(structTable) ==
    IF structTable.typ = "nil" THEN ErrNoStructTable
    ELSE IF Kind(structTable.typ) # "struct" THEN ErrNotStruct
    ELSE IF Name(structTable.typ) = <<>> THEN ErrNoStructNamer
    ELSE ErrNone

\* Structsql.Insert(sql, values, structTable) on Engine s. Its table name and
\* its cache lookup are the statements of getTableName and getTypeInfo, inline.
Insert(s, structTable, values) ==
    LET err == InsertValidate(structTable)
    IN  IF err # ErrNone THEN Rejected(s, err)
        ELSE
        LET tn == getTableName(ResetBuffer(s.convPool), structTable.typ)
            ti == getTypeInfo(s.typeCache, ResetBuffer(tn.conv), structTable.typ)
            numFields == Len(ti.info.fields)
            columns == [i \in 1..numFields |-> ti.info.fields[i].Name]
        IN  IF numFields = 0
            THEN Failed(s, ti.conv, ti.typeCache, ErrNoFields, tn.tableStr, ti.info, ti.hit, 0)
            ELSE IF numFields > MaxColumns
            \* columns[colCount] with colCount = 32: index out of range
            THEN Failed(s, ti.conv, ti.typeCache, Panic, tn.tableStr, ti.info, ti.hit, 0)
            ELSE
            LET c == InsertSQL(ti.conv, tn.tableStr, columns)
            IN  Outcome([s EXCEPT !.convPool = c, !.typeCache = ti.typeCache],
                        ErrNone, TRUE,
                        ClearValues(values)
                          \o FieldValues(structTable.vals, [i \in 1..numFields |-> i]),
                        tn.tableStr, ti.info, ti.hit, 0, <<>>)

\* ------------------------------------------------------------------ state

\* Two Engines, each with the caller that owns it. The caller passes the same
\* two slots, sql and values, to every call on its Engine.
Engines == {1, 2}

VARIABLES
    config,   \* config[e]: the arguments New was called with
    engine,   \* engine[e]: the Structsql: typeCache, convPool, dbType
    slot,     \* slot[e]: the caller's sql and values
    last,     \* the last call: builder and structTable
    prev,     \* the call before it
    ret,      \* ret[e]: what the last call returned and worked with
    pre,      \* pre[e]: what the slots held when the last call was made
    calls,    \* calls made since the initial state
    unit,     \* one helper taken alone: its arguments and, once run, its result
    shared    \* callers of one shared Engine: the lock and where each caller is

vars == <<config, engine, slot, last, prev, ret, pre, calls, unit, shared>>

\* A text the caller holds: a string of its own (text), or the string
\* GetStringZeroCopy returned, which is the first len bytes of the array of the
\* Engine's BuffOut.
OwnText(text) == [alias |-> FALSE, len |-> Len(text), text |-> text]
BuffText(len) == [alias |-> TRUE,  len |-> len,       text |-> <<>>]

\* What a text reads as, given the Engine's Conv.
Read(sql, conv) == IF sql.alias THEN SubSeq(conv.arr, 1, sql.len) ELSE sql.text

SqlOf(e) == Read(slot[e].sql, engine[e].convPool)

NoCall == [op |-> "none", arg |-> NilArg]

NoUnit == [fn |-> "none", done |-> FALSE]

\* The local variables of a call that is under way: the table name, the
\* descriptor and the key index it computed, and the text it returned.
NoLocals == [tableStr |-> <<>>, info |-> [fields |-> <<>>], hit |-> FALSE,
             idIndex |-> 0, text |-> <<>>]

\* The lock free (0), every caller idle, nothing called yet: got[c] is the
\* call c made last, hist[c] the calls c made so far, loc[c] the local
\* variables of c's call, and mixed says that some statement of a call ran
\* while another caller's call was under way.
NoShared == [lock |-> 0, phase |-> [c \in Engines |-> "idle"],
             got |-> [c \in Engines |-> NoCall],
             hist |-> [c \in Engines |-> <<>>],
             loc |-> [c \in Engines |-> NoLocals],
             mixed |-> FALSE]

NoRet == [err |-> ErrNone, wrote |-> FALSE, tableStr |-> <<>>,
          info |-> [fields |-> <<>>], hit |-> FALSE, idIndex |-> 0, setIdx |-> <<>>]

\* The slots a caller starts with: the caller of Engine 1 passes slots that hold
\* a text and a value from elsewhere, the caller of Engine 2 an empty string and
\* a nil slice.
InitialSlots ==
    [e \in Engines |->
       IF e = 1 THEN [sql |-> OwnText(<<"x">>), values |-> <<IntV(99)>>]
       ELSE [sql |-> OwnText(<<>>), values |-> <<>>]]

\* Engine 1 is made by New(), Engine 2 by New(SQLite).
Configs1 == { <<>> }
Configs2 == { <<DbTypeValue(SQLite)>> }

\* The state after the Engines were made with the arguments cfg[e].
Made(cfg) ==
    /\ config = cfg
    /\ engine = [e \in Engines |-> New(cfg[e])]
    /\ slot = InitialSlots
    /\ last = NoCall
    /\ prev = NoCall
    /\ ret = [e \in Engines |-> NoRet]
    /\ pre = [e \in Engines |->
                [sql |-> InitialSlots[e].sql.text, values |-> InitialSlots[e].values]]
    /\ calls = 0
    /\ shared = NoShared

Init ==
    /\ \E c1 \in Configs1, c2 \in Configs2 : Made(<<c1, c2>>)
    /\ unit = NoUnit

\* Engine 1 is made by New(PostgreSQL), Engine 2 by New("sqlite"), a string that
\* is not a dbType.
InitExplicit ==
    /\ Made(<< <<DbTypeValue(PostgreSQL)>>, <<OtherValue("sqlite")>> >>)
    /\ unit = NoUnit

\* The Engine after a call: the call's bookkeeping of a reallocation is dropped.
EngineAfter(o) ==
    [o.eng EXCEPT !.convPool = [@ EXCEPT !.moved = FALSE, !.old = <<>>]]

\* The caller's slots after a call with outcome o. A call that succeeds assigns
\* both. Otherwise the slots are not assigned; a text that points into the array
\* the call started with keeps pointing there when the buffer moved on to a new
\* array.
SlotAfter(sl, o) ==
    IF o.wrote
    THEN [sql |-> BuffText(o.sqlLen), values |-> o.values]
    ELSE IF sl.sql.alias /\ o.eng.convPool.moved
    THEN [sl EXCEPT !.sql = OwnText(SubSeq(o.eng.convPool.old, 1, sl.sql.len))]
    ELSE sl

RetOf(o) == [err |-> o.err, wrote |-> o.wrote, tableStr |-> o.tableStr,
             info |-> o.info, hit |-> o.hit, idIndex |-> o.idIndex,
             setIdx |-> o.setIdx]

\* The builder op called with structTable arg on an Engine s by a caller whose
\* value slot holds values.
CallOn(op, s, arg, values) ==
    CASE op = "Insert" -> Insert(s, arg, values)
      [] op = "Update" -> Update(s, arg, values)
      [] op = "Delete" -> Delete(s, arg, values)

\* The builder op called with structTable arg on Engine e.
Call(op, e, arg) ==
    CASE op = "Insert" -> Insert(engine[e], arg, slot[e].values)
      [] op = "Update" -> Update(engine[e], arg, slot[e].values)
      [] op = "Delete" -> Delete(engine[e], arg, slot[e].values)

\* Each caller makes the call op(arg) on its Engine.
Step(op, arg) ==
    \E o \in { [e \in Engines |-> Call(op, e, arg)] } :
        /\ engine' = [e \in Engines |-> EngineAfter(o[e])]
        /\ slot'   = [e \in Engines |-> SlotAfter(slot[e], o[e])]
        /\ ret'    = [e \in Engines |-> RetOf(o[e])]
        /\ pre'    = [e \in Engines |-> [sql |-> SqlOf(e), values |-> slot[e].values]]
        /\ prev'   = last
        /\ last'   = [op |-> op, arg |-> arg]
        /\ calls'  = calls + 1
        /\ UNCHANGED <<config, unit, shared>>

DoInsert(arg) == calls < MaxCalls /\ Step("Insert", arg)

DoUpdate(arg) == calls < MaxCalls /\ Step("Update", arg)

DoDelete(arg) == calls < MaxCalls /\ Step("Delete", arg)

Next == \E arg \in Args : DoInsert(arg) \/ DoUpdate(arg) \/ DoDelete(arg)

Spec == Init /\ [][Next]_vars

SpecExplicit == InitExplicit /\ [][Next]_vars

\* ------------------------------------------------------ helpers taken alone

\* The helpers of the builders, each run once on arguments of its own: no
\* builder is called, the Engines stay as New made them.

\* Fields a descriptor may hold, for findIdField.
MaxKeyFields == 2

KeyTables == { <<"u","s","e","r">>, <<"t","a","g">> }

KeyNames ==
    { <<"i","d">>, <<"u","s","e","r","i","d">>, <<"u","s","e","r","_","i","d">>, <<"i","d","u","s","e","r">>, <<"i","d","_","u","s","e","r">>,
      <<"t","a","g","i","d">>, <<"n","a","m","e">>, <<"i","d","n","a","m","e">>, <<"_","i","d","u","s","e","r">> }

RECURSIVE SeqsUpTo(_, _)
SeqsUpTo(S, n) ==
    IF n = 0 THEN { <<>> }
    ELSE SeqsUpTo(S, n - 1)
           \cup { Append(q, x) : q \in { r \in SeqsUpTo(S, n - 1) : Len(r) = n - 1 }, x \in S }

KeyInputs ==
    { [fn |-> "findIdField", done |-> FALSE, tableStr |-> t,
       fields |-> [i \in 1..Len(names) |-> [Name |-> names[i]]]] :
        t \in KeyTables, names \in SeqsUpTo(KeyNames, MaxKeyFields) }

\* Positions a placeholder is rendered for: 1..MaxPosition, and some of three
\* and four digits.
MaxPosition == 12

Positions == 1..MaxPosition \cup {99, 100, 101, 999, 1000}

\* BuffOut as a builder may have left it when it renders a placeholder: empty,
\* with the statement so far, with bytes of an earlier statement beyond the
\* length in use, and one or two bytes from its capacity.
ConvInputs ==
    LET so_far  == WrString(NewConv, S_UPDATE \o <<"t"," ","S","E","T"," ","a","=">>)
        earlier == WrString(ResetBuffer(WrString(so_far, <<"$","1","2","3","4">>)),
                            S_DELETE_FROM)
        Filled(n) == WrString(NewConv, [i \in 1..n |-> "x"])
    IN  { NewConv, so_far, earlier, Filled(BuffCap - 2), Filled(BuffCap - 1),
          Filled(BuffCap) }

PlaceholderInputs ==
    { [fn |-> "placeholder", done |-> FALSE, d |-> d, index |-> i, conv |-> c] :
        d \in {PostgreSQL, SQLite}, i \in Positions, c \in ConvInputs }

\* Arguments of New: at most MaxConfigs values, each a dbType (one of the two
\* constants or another text converted to dbType) or a value of another type.
MaxConfigs == 2

ConfigValues ==
    { DbTypeValue(PostgreSQL), DbTypeValue(SQLite), DbTypeValue("mysql"),
      OtherValue("sqlite"), OtherValue("postgres") }

NewInputs ==
    { [fn |-> "New", done |-> FALSE, configs |-> c] :
        c \in SeqsUpTo(ConfigValues, MaxConfigs) }

\* Field values of every kind the classifier tells apart: numbers of every
\* width, zero and not, unsigned ones with zero and with other bytes after
\* them, texts, booleans, pointers, interfaces, slices and maps (absent, empty,
\* filled), and values of kinds it does not know.
PlainValues ==
    { NumV(k, n) : k \in IntKinds \cup FloatKinds, n \in {0, 7} }
      \cup { UintV(k, own, after) : k \in {"uint8", "uint16", "uint32"},
                                    own \in {0, 7}, after \in {0, 1} }
      \cup { UintV(k, own, 0) : k \in {"uint", "uint64", "uintptr"}, own \in {0, 7} }
      \cup { StrV(<<>>), StrV(Alice), BoolV(FALSE), BoolV(TRUE) }
      \cup { RefV(k, a) : k \in {"pointer", "interface"}, a \in BOOLEAN }
      \cup { SeqV(k, TRUE, 0) : k \in {"slice", "map"} }
      \cup { SeqV(k, FALSE, n) : k \in {"slice", "map"}, n \in {0, 2} }
      \cup { OtherV(k) : k \in {"chan", "func", "array", "unsafe.Pointer"} }

\* The values the fields of a nested struct take.
FieldValuesNested ==
    { IntV(0), IntV(7), StrV(<<>>), BoolV(FALSE), UintV("uint8", 0, 1),
      RefV("pointer", TRUE), SeqV("slice", FALSE, 0), OtherV("chan") }

\* Structs nested at most MaxNesting deep, of no, one or two fields.
MaxNesting == 2

RECURSIVE StructValues(_)
StructValues(depth) ==
    IF depth = 0 THEN FieldValuesNested
    ELSE FieldValuesNested
           \cup { StructV(<<>>) }
           \cup { StructV(<<x>>) : x \in StructValues(depth - 1) }
           \cup { StructV(<<x, y>>) : x \in FieldValuesNested,
                                      y \in StructValues(depth - 1) }

ZeroInputs ==
    { [fn |-> "IsZero", done |-> FALSE, value |-> v] :
        v \in PlainValues \cup StructValues(MaxNesting) }

InitUnit ==
    /\ \E c1 \in Configs1, c2 \in Configs2 : Made(<<c1, c2>>)
    /\ \/ unit \in KeyInputs
       \/ unit \in PlaceholderInputs
       \/ unit \in NewInputs
       \/ unit \in ZeroInputs

\* findIdField(tableStr, info.fields, true), as Update and Delete call it.
RunFindIdField ==
    /\ unit.fn = "findIdField"
    /\ ~unit.done
    /\ unit' = [fn |-> unit.fn, done |-> TRUE, tableStr |-> unit.tableStr,
                fields |-> unit.fields,
                out |-> findIdField(unit.tableStr, unit.fields, TRUE)]
    /\ UNCHANGED <<config, engine, slot, last, prev, ret, pre, calls, shared>>

\* d.placeholder(index, conv), as the builders call it.
RunPlaceholder ==
    /\ unit.fn = "placeholder"
    /\ ~unit.done
    /\ unit' = [fn |-> unit.fn, done |-> TRUE, d |-> unit.d, index |-> unit.index,
                conv |-> unit.conv,
                out |-> placeholder(unit.d, unit.index, unit.conv)]
    /\ UNCHANGED <<config, engine, slot, last, prev, ret, pre, calls, shared>>

\* New(configs...).
RunNew ==
    /\ unit.fn = "New"
    /\ ~unit.done
    /\ unit' = [fn |-> unit.fn, done |-> TRUE, configs |-> unit.configs,
                out |-> New(unit.configs)]
    /\ UNCHANGED <<config, engine, slot, last, prev, ret, pre, calls, shared>>

\* fieldVal.IsZero() on the second field of a record whose first field is its
\* key, and the SET fields Update collects for it.
RunIsZero ==
    /\ unit.fn = "IsZero"
    /\ ~unit.done
    /\ unit' = [fn |-> unit.fn, done |-> TRUE, value |-> unit.value,
                zero |-> IsZero(unit.value),
                set |-> SetFields(<<IntV(1), unit.value>>, 2, 1)]
    /\ UNCHANGED <<config, engine, slot, last, prev, ret, pre, calls, shared>>

NextUnit == RunFindIdField \/ RunPlaceholder \/ RunNew \/ RunIsZero

SpecUnit == InitUnit /\ [][NextUnit]_vars

\* ------------------------------------------------------- one shared Engine

\* Two concurrent callers share Engine 1. Each has its own record, its own two
\* slots slot[c], and makes every builder call between Lock and Unlock of one
\* mutex; it reads what its slots hold after Unlock, while the other caller
\* goes on.
Callers == Engines

SharedEngine == 1

\* The records the callers pass.
SharedArgs ==
    { NilArg,
      Arg("User", <<IntV(1), StrV(Alice), StrV(Mail)>>),
      Arg("User", <<IntV(2), StrV(<<>>), StrV(<<>>)>>),
      Arg("Job", <<IntV(3)>>),
      Arg("Log", <<StrV(Alice), IntV(4)>>),
      WideFull }

InitShared ==
    /\ Made(<< <<>>, <<>> >>)
    /\ unit = NoUnit

\* mu.Lock()
Lock(c) ==
    /\ shared.lock = 0
    /\ shared.phase[c] = "idle"
    /\ calls < MaxCalls
    /\ shared' = [shared EXCEPT !.lock = c, !.phase[c] = "locked"]
    /\ UNCHANGED <<config, engine, slot, last, prev, ret, pre, calls, unit>>

\* The slots of a caller other than the one calling: a text that points into
\* the array the call started with keeps pointing there when the buffer moved
\* on to a new array.
SlotBeside(sl, o) ==
    IF sl.sql.alias /\ o.eng.convPool.moved
    THEN [sl EXCEPT !.sql = OwnText(SubSeq(o.eng.convPool.old, 1, sl.sql.len))]
    ELSE sl

\* The builder op called by c with structTable arg on the shared Engine.
SharedCall(op, c, arg) ==
    CASE op = "Insert" -> Insert(engine[SharedEngine], arg, slot[c].values)
      [] op = "Update" -> Update(engine[SharedEngine], arg, slot[c].values)
      [] op = "Delete" -> Delete(engine[SharedEngine], arg, slot[c].values)

\* s.Insert / s.Update / s.Delete, called by the holder of the lock.
LockedCall(c, op, arg) ==
    /\ shared.lock = c
    /\ shared.phase[c] = "locked"
    /\ \E o \in { SharedCall(op, c, arg) } :
          /\ engine' = [engine EXCEPT ![SharedEngine] = EngineAfter(o)]
          /\ slot'   = [d \in Callers |->
                          IF d = c THEN SlotAfter(slot[d], o) ELSE SlotBeside(slot[d], o)]
          /\ ret'    = [ret EXCEPT ![c] = RetOf(o)]
          /\ pre'    = [pre EXCEPT ![c] =
                          [sql |-> Read(slot[c].sql, engine[SharedEngine].convPool),
                           values |-> slot[c].values]]
    /\ prev'   = last
    /\ last'   = [op |-> op, arg |-> arg]
    /\ calls'  = calls + 1
    /\ shared' = [shared EXCEPT !.phase[c] = "called",
                                 !.got[c] = [op |-> op, arg |-> arg]]
    /\ UNCHANGED <<config, unit>>

\* mu.Unlock()
Unlock(c) ==
    /\ shared.lock = c
    /\ shared.phase[c] = "called"
    /\ shared' = [shared EXCEPT !.lock = 0, !.phase[c] = "unlocked"]
    /\ UNCHANGED <<config, engine, slot, last, prev, ret, pre, calls, unit>>

\* The caller has used its statement and values (db.Exec(sql, values...)) and
\* may call again.
Use(c) ==
    /\ shared.phase[c] = "unlocked"
    /\ shared' = [shared EXCEPT !.phase[c] = "idle"]
    /\ UNCHANGED <<config, engine, slot, last, prev, ret, pre, calls, unit>>

NextShared ==
    \E c \in Callers :
        \/ Lock(c)
        \/ \E op \in {"Insert", "Update", "Delete"}, arg \in SharedArgs :
              LockedCall(c, op, arg)
        \/ Unlock(c)
        \/ Use(c)

SpecShared == InitShared /\ [][NextShared]_vars

\* ------------------------------------------------- a cache that fills up

\* Engines that have served Delete calls for the first n filler types, one
\* call per type: n is one short of the capacity of the type cache, or the
\* capacity itself. The calls that follow pass types the cache holds and types
\* it does not.
Filler(k) == Arg(FillerType(k), <<IntV(k)>>)

\* One more call of the warm-up: Delete for Tn, from the state p. (The outcome
\* is bound once, as a value, before it is read.)
WarmStep(p, n) ==
    CHOOSE r \in { [eng |-> EngineAfter(o), sl |-> SlotAfter(p.sl, o),
                    ret |-> RetOf(o), pre |-> p.sl] :
                      o \in { CallOn("Delete", p.eng, Filler(n), p.sl.values) } } : TRUE

\* The Engine and the slots after Delete was called for T1 .. Tn, and what the
\* last of these calls returned and found in the slots.
RECURSIVE Warmed(_, _, _)
Warmed(cfg, sl, n) ==
    IF n = 0
    THEN [eng |-> New(cfg), sl |-> sl, ret |-> NoRet, pre |-> sl]
    ELSE CHOOSE r \in { WarmStep(p, n) : p \in { Warmed(cfg, sl, n - 1) } } : TRUE

FullArgs ==
    { NilArg,
      Filler(1), Filler(TypeCacheCap), Filler(FillerCount),
      Arg("User", <<IntV(1), StrV(Alice), StrV(Mail)>>),
      Arg("Dual", <<IntV(5), IntV(6)>>),
      Arg("Dual", <<IntV(0), IntV(6)>>),
      Arg("Dual", <<IntV(5), IntV(0)>>),
      Arg("Log", <<StrV(Alice), IntV(4)>>),
      Arg("Empty", <<>>) }

InitFull ==
    \E n \in {TypeCacheCap - 1, TypeCacheCap} :
        \E w \in { [e \in Engines |->
                      Warmed(IF e = 1 THEN <<>> ELSE <<DbTypeValue(SQLite)>>,
                             InitialSlots[e], n)] } :
            /\ config = << <<>>, <<DbTypeValue(SQLite)>> >>
            /\ engine = [e \in Engines |-> w[e].eng]
            /\ slot = [e \in Engines |-> w[e].sl]
            /\ last = [op |-> "Delete", arg |-> Filler(n)]
            /\ prev = [op |-> "Delete", arg |-> Filler(n - 1)]
            /\ ret = [e \in Engines |-> w[e].ret]
            /\ pre = [e \in Engines |->
                        [sql |-> Read(w[e].pre.sql, w[e].eng.convPool),
                         values |-> w[e].pre.values]]
            /\ calls = 0
            /\ unit = NoUnit
            /\ shared = NoShared

NextFull == \E arg \in FullArgs : DoInsert(arg) \/ DoUpdate(arg) \/ DoDelete(arg)

SpecFull == InitFull /\ [][NextFull]_vars

\* ------------------------------------------- one Engine and no lock

\* Two callers call Delete on Engine 1 with no lock: the statements of the two
\* calls run in any order, each call's statements in program order. phase[c] is
\* the place of caller c in Delete.
RaceArgs ==
    { NilArg,
      Arg("User", <<IntV(1), StrV(Alice), StrV(Mail)>>),
      Arg("Job", <<IntV(3)>>),
      Arg("Log", <<StrV(Alice), IntV(4)>>) }

InitRace ==
    /\ Made(<< <<>>, <<>> >>)
    /\ unit = NoUnit

\* Another caller's call is under way.
Amid(c) == \E d \in Callers \ {c} : shared.phase[d] \notin {"idle", "done"}

\* The Engine and the callers' slots once a statement of a call left the Conv
\* as conv and the cache as typeCache.
Written(conv, typeCache) ==
    /\ engine' = [engine EXCEPT ![SharedEngine] =
                    [@ EXCEPT !.typeCache = typeCache,
                              !.convPool = [conv EXCEPT !.moved = FALSE, !.old = <<>>]]]
    /\ slot' = [d \in Callers |->
                  IF slot[d].sql.alias /\ conv.moved
                  THEN [slot[d] EXCEPT !.sql = OwnText(SubSeq(conv.old, 1, slot[d].sql.len))]
                  ELSE slot[d]]

\* Caller c goes on to phase ph with the local variables loc.
Goes(c, ph, loc) ==
    shared' = [shared EXCEPT !.phase[c] = ph, !.loc[c] = loc,
                             !.mixed = @ \/ Amid(c)]

\* typ, err := s.validateStruct(structTable)
RaceStart(c, arg) ==
    /\ shared.phase[c] \in {"idle", "done"}
    /\ calls < MaxCalls
    /\ calls' = calls + 1
    /\ prev' = last
    /\ last' = [op |-> "Delete", arg |-> arg]
    /\ pre' = [pre EXCEPT ![c] =
                 [sql |-> Read(slot[c].sql, engine[SharedEngine].convPool),
                  values |-> slot[c].values]]
    /\ LET v == validateStruct(arg)
       IN  /\ ret' = [ret EXCEPT ![c] =
                        IF v.err # ErrNone
                        THEN RetOf(Rejected(engine[SharedEngine], v.err))
                        ELSE NoRet]
           /\ shared' = [shared EXCEPT
                           !.phase[c] = IF v.err # ErrNone THEN "done" ELSE "setup",
                           !.got[c] = [op |-> "Delete", arg |-> arg],
                           !.loc[c] = NoLocals,
                           !.mixed = @ \/ Amid(c)]
    /\ UNCHANGED <<config, engine, slot, unit>>

\* c := s.setupConv()
RaceSetup(c) ==
    /\ shared.phase[c] = "setup"
    /\ Written(setupConv(engine[SharedEngine].convPool), engine[SharedEngine].typeCache)
    /\ Goes(c, "name", shared.loc[c])
    /\ UNCHANGED <<config, last, prev, ret, pre, calls, unit>>

\* s.getTableName(typ, &tableStr)
RaceTableName(c) ==
    /\ shared.phase[c] = "name"
    /\ \E tn \in { getTableName(engine[SharedEngine].convPool, shared.got[c].arg.typ) } :
          /\ Written(tn.conv, engine[SharedEngine].typeCache)
          /\ Goes(c, "lookup", [shared.loc[c] EXCEPT !.tableStr = tn.tableStr])
    /\ UNCHANGED <<config, last, prev, ret, pre, calls, unit>>

\* getTypeInfo: the loop over s.typeCache.
RaceLookup(c) ==
    /\ shared.phase[c] = "lookup"
    /\ LET cache == engine[SharedEngine].typeCache
           j     == CacheIndex(cache, shared.got[c].arg.typ)
       IN  IF j # 0
           THEN Goes(c, "find", [shared.loc[c] EXCEPT !.info = cache[j].info, !.hit = TRUE])
           ELSE Goes(c, "build", shared.loc[c])
    /\ UNCHANGED <<config, engine, slot, last, prev, ret, pre, calls, unit>>

\* getTypeInfo: if foundInfo == nil, the descriptor is built and stored.
RaceBuild(c) ==
    /\ shared.phase[c] = "build"
    /\ LET typ == shared.got[c].arg.typ
       IN  \E b \in { BuildFields(engine[SharedEngine].convPool, DeclFields(typ),
                                   1, Len(DeclFields(typ))) } :
             /\ Written(b.conv,
                        CacheStore(engine[SharedEngine].typeCache,
                                   [typePtr |-> typ, info |-> [fields |-> b.fields]]))
             /\ Goes(c, "find", [shared.loc[c] EXCEPT !.info = [fields |-> b.fields]])
    /\ UNCHANGED <<config, last, prev, ret, pre, calls, unit>>

\* idIndex, err := s.findIdField(tableStr, info.fields, true)
RaceFind(c) ==
    /\ shared.phase[c] = "find"
    /\ LET loc == shared.loc[c]
           id  == findIdField(loc.tableStr, loc.info.fields, TRUE)
       IN  IF id.err # ErrNone
           THEN /\ Goes(c, "done", loc)
                /\ ret' = [ret EXCEPT ![c] =
                             RetOf(Failed(engine[SharedEngine], engine[SharedEngine].convPool,
                                          engine[SharedEngine].typeCache, id.err,
                                          loc.tableStr, loc.info, loc.hit, 0))]
           ELSE /\ Goes(c, "write", [loc EXCEPT !.idIndex = id.idIndex])
                /\ UNCHANGED ret
    /\ UNCHANGED <<config, engine, slot, last, prev, pre, calls, unit>>

\* c.WrString(BuffOut, "DELETE FROM ") ... s.dbType.placeholder(1, c)
RaceWrite(c) ==
    /\ shared.phase[c] = "write"
    /\ Written(DeleteSQL(engine[SharedEngine].convPool, engine[SharedEngine].dbType,
                         shared.loc[c].tableStr),
               engine[SharedEngine].typeCache)
    /\ Goes(c, "return", shared.loc[c])
    /\ UNCHANGED <<config, last, prev, ret, pre, calls, unit>>

\* *sql = c.GetStringZeroCopy(BuffOut); *values = append((*values)[:0], key)
RaceReturn(c) ==
    /\ shared.phase[c] = "return"
    /\ LET loc  == shared.loc[c]
           conv == engine[SharedEngine].convPool
           o    == Outcome(engine[SharedEngine], ErrNone, TRUE,
                           Append(ClearValues(slot[c].values),
                                  shared.got[c].arg.vals[loc.idIndex]),
                           loc.tableStr, loc.info, loc.hit, loc.idIndex, <<>>)
       IN  /\ slot' = [slot EXCEPT ![c] = SlotAfter(slot[c], o)]
           /\ ret' = [ret EXCEPT ![c] = RetOf(o)]
           /\ Goes(c, "done", [loc EXCEPT !.text = SubSeq(conv.arr, 1, o.sqlLen)])
    /\ UNCHANGED <<config, engine, last, prev, pre, calls, unit>>

NextRace ==
    \E c \in Callers :
        \/ \E arg \in RaceArgs : RaceStart(c, arg)
        \/ RaceSetup(c)
        \/ RaceTableName(c)
        \/ RaceLookup(c)
        \/ RaceBuild(c)
        \/ RaceFind(c)
        \/ RaceWrite(c)
        \/ RaceReturn(c)

SpecRace == InitRace /\ [][NextRace]_vars

\* ------------------------------------------------- an Engine per caller

\* Two callers in one process, each with the Engine New made for it and its
\* own slots; their calls interleave in any order.

\* A Conv handed out that is one and the same for every New.
GetConvShared(k) == 1

\* GetConv(): the identity of the Conv the k-th New takes from the pool. New
\* never puts its Conv back, so no two Engines are handed the same one.
GetConv(k) == k

\* Engines d and e write to the same Conv.
SameConv(d, e) == GetConv(d) = GetConv(e)

InitOwn ==
    /\ \E c1 \in Configs1, c2 \in Configs2 : Made(<<c1, c2>>)
    /\ unit = NoUnit

\* s.Insert / s.Update / s.Delete, called by caller e on its own Engine. The
\* cache is the slice New made for this Engine; the buffer is the Engine's
\* Conv, and whoever holds the same Conv sees what the call wrote.
OwnCall(e, op, arg) ==
    /\ calls < MaxCalls
    /\ \E o \in { Call(op, e, arg) } :
          /\ engine' = [d \in Engines |->
                          IF d = e THEN EngineAfter(o)
                          ELSE IF SameConv(d, e)
                          THEN [engine[d] EXCEPT !.convPool = EngineAfter(o).convPool]
                          ELSE engine[d]]
          /\ slot'   = [d \in Engines |->
                          IF d = e THEN SlotAfter(slot[d], o)
                          ELSE IF SameConv(d, e) THEN SlotBeside(slot[d], o)
                          ELSE slot[d]]
          /\ ret'    = [ret EXCEPT ![e] = RetOf(o)]
          /\ pre'    = [pre EXCEPT ![e] = [sql |-> SqlOf(e), values |-> slot[e].values]]
    /\ prev'   = last
    /\ last'   = [op |-> op, arg |-> arg]
    /\ calls'  = calls + 1
    /\ shared' = [shared EXCEPT !.got[e] = [op |-> op, arg |-> arg],
                                 !.hist[e] = Append(@, [op |-> op, arg |-> arg])]
    /\ UNCHANGED <<config, unit>>

NextOwn ==
    \E e \in Engines, op \in {"Insert", "Update", "Delete"}, arg \in SharedArgs :
        OwnCall(e, op, arg)

SpecOwn == InitOwn /\ [][NextOwn]_vars

\* ------------------------------------------------- reading a statement

\* What a reader of the SQL text sees: where the placeholders are, what each is
\* written as, and which column each stands for.

IsDigit(ch) == ch \in {"0","1","2","3","4","5","6","7","8","9"}

IsNameChar(ch) == ch \notin {" ", ",", "(", ")", "=", "?", "$"}

\* The positions where a placeholder starts, left to right.
PlaceholderAt(text) ==
    SelectSeq([i \in 1..Len(text) |-> i], LAMBDA i : text[i] \in {"?", "$"})

\* The placeholder that starts at p: "?", or "$" and the digits after it.
PlaceholderText(text, p) ==
    IF text[p] = "?" THEN <<"?">>
    ELSE LET b == CHOOSE b \in p..Len(text) :
                    /\ \A h \in (p + 1)..b : IsDigit(text[h])
                    /\ (b = Len(text) \/ ~IsDigit(text[b + 1]))
         IN  SubSeq(text, p, b)

\* The placeholders of text as written, left to right.
PlaceholderTexts(text) ==
    LET at == PlaceholderAt(text)
    IN  [k \in 1..Len(at) |-> PlaceholderText(text, at[k])]

\* The name that ends at position j (empty when no name ends there).
NameEndingAt(text, j) ==
    IF j < 1 THEN <<>>
    ELSE LET a == CHOOSE a \in 1..(j + 1) :
                    /\ \A h \in a..j : IsNameChar(text[h])
                    /\ (a = 1 \/ ~IsNameChar(text[a - 1]))
         IN  SubSeq(text, a, j)

\* The names listed in the first pair of parentheses of text.
ListedColumns(text) ==
    IF \E i \in 1..Len(text) : text[i] = ")"
    THEN LET open  == CHOOSE i \in 1..Len(text) :
                        text[i] = "(" /\ \A h \in 1..(i - 1) : text[h] # "("
             close == CHOOSE i \in 1..Len(text) :
                        text[i] = ")" /\ \A h \in 1..(i - 1) : text[h] # ")"
             ends  == SelectSeq([i \in 1..Len(text) |-> i],
                                LAMBDA i : /\ open < i /\ i < close
                                           /\ IsNameChar(text[i])
                                           /\ ~IsNameChar(text[i + 1]))
         IN  [k \in 1..Len(ends) |-> NameEndingAt(text, ends[k])]
    ELSE <<>>

\* The column each placeholder is bound to, left to right: the name before
\* "=<placeholder>", or, for the k-th placeholder of a VALUES list, the k-th
\* listed column (empty when there is none).
BoundColumns(text) ==
    LET at   == PlaceholderAt(text)
        cols == ListedColumns(text)
    IN  [k \in 1..Len(at) |->
           IF at[k] > 1 /\ text[at[k] - 1] = "="
           THEN NameEndingAt(text, at[k] - 2)
           ELSE IF k <= Len(cols) THEN cols[k] ELSE <<>>]

\* The text with every placeholder replaced by "?".
WithoutNumbers(text) ==
    LET InNumber(i) == /\ IsDigit(text[i])
                       /\ \E p \in 1..(i - 1) :
                            text[p] = "$" /\ \A h \in (p + 1)..i : IsDigit(text[h])
        kept == SelectSeq([i \in 1..Len(text) |-> i], LAMBDA i : ~InNumber(i))
    IN  [k \in 1..Len(kept) |-> IF text[kept[k]] = "$" THEN "?" ELSE text[kept[k]]]

\* ------------------------------------------- what the specification expects

\* The column of a field: its declared name, lowercased.
ColumnOf(f) == LowerText(f.name)

\* The table of a type for Update and Delete: the type name, lowercased.
TableOf(t) == LowerText(Name(t))

\* A placeholder for position i in dialect d.
Rendered(d, i) == IF d = PostgreSQL THEN <<"$">> \o Decimal(i) ELSE <<"?">>

\* A record: a struct value of a named type.
IsRecord(arg) == arg.typ \in StructTypes \ {"Anon"}

\* The naming rule of the primary key: the column is id, or it is the table
\* name and id joined in either order, with or without an underscore between.
KeyNamed(table, col) ==
    \/ col = <<"i","d">>
    \/ \E sep \in { <<>>, <<"_">> } :
          \/ col = table \o sep \o <<"i","d">>
          \/ col = <<"i","d">> \o sep \o table

\* The index of the first field of type t whose column satisfies the primary
\* key naming rule, 0 when there is none.
KeyOf(t) ==
    LET decl  == DeclFields(t)
        IsKey(j) == KeyNamed(TableOf(t), ColumnOf(decl[j]))
    IN  IF \E j \in 1..Len(decl) : IsKey(j)
        THEN CHOOSE j \in 1..Len(decl) : IsKey(j) /\ \A h \in 1..(j - 1) : ~IsKey(h)
        ELSE 0

\* A zero value, kind by kind: the number 0, the empty text, false, an absent
\* pointer or interface, a slice or map that is absent or of length zero, a
\* struct whose fields are all zero; no value of another kind.
RECURSIVE ZeroValued(_)
ZeroValued(val) ==
    CASE val.k \in IntKinds \cup FloatKinds -> val.v = 0
      [] val.k \in UintKinds               -> val.v.own = 0
      [] val.k = "string"                  -> Len(val.v) = 0
      [] val.k = "bool"                    -> val.v = FALSE
      [] val.k \in {"pointer", "interface"} -> val.v = 0
      [] val.k \in {"slice", "map"}        -> val.v <= 0
      [] val.k = "struct"                  -> \A i \in 1..Len(val.v) : ZeroValued(val.v[i])
      [] OTHER                             -> FALSE

\* The fields of arg beside the key whose value is not zero, in declared order.
NonZeroNonKey(arg) ==
    SelectSeq([i \in 1..Len(DeclFields(arg.typ)) |-> i],
              LAMBDA i : i # KeyOf(arg.typ) /\ ~ZeroValued(arg.vals[i]))

\* The last call was op, made with a record, and it has returned or stopped.
Called(op) == last.op = op /\ IsRecord(last.arg)

\* ------------------------------------------------------------------ claims

\* C1: after every successful Insert, Update or Delete, in either dialect, the
\* SQL text has as many placeholders as the value list has values, and the i-th
\* value is the value of the record field whose column the i-th placeholder is
\* bound to.
C1_ValuesFollowPlaceholders ==
    \A e \in Engines :
        ret[e].wrote =>
            LET text == SqlOf(e)
                cols == BoundColumns(text)
                decl == DeclFields(last.arg.typ)
            IN  /\ Len(PlaceholderAt(text)) = Len(slot[e].values)
                /\ \A i \in 1..Len(cols) :
                     \E j \in 1..Len(decl) :
                        /\ ColumnOf(decl[j]) = cols[i]
                        /\ i <= Len(slot[e].values)
                        /\ slot[e].values[i] = last.arg.vals[j]

\* C2: for every record with a primary-key field and at least one non-zero
\* non-key field, Update succeeds; its SET list is the non-zero non-key fields
\* in declared order with placeholders 1..K, the WHERE placeholder is K+1, and
\* the values are the K SET values followed by the key's value.
C2_UpdateSetList ==
    \A e \in Engines :
        ( /\ Called("Update")
          /\ KeyOf(last.arg.typ) # 0
          /\ Len(NonZeroNonKey(last.arg)) > 0 ) =>
            LET text == SqlOf(e)
                cols == BoundColumns(text)
                decl == DeclFields(last.arg.typ)
                set  == NonZeroNonKey(last.arg)
                K    == Len(set)
            IN  /\ ret[e].err = ErrNone
                /\ Len(cols) = K + 1
                /\ \A i \in 1..K : cols[i] = ColumnOf(decl[set[i]])
                /\ PlaceholderTexts(text)
                     = [i \in 1..(K + 1) |-> Rendered(engine[e].dbType, i)]
                /\ slot[e].values
                     = [i \in 1..(K + 1) |->
                          IF i <= K THEN last.arg.vals[set[i]]
                          ELSE last.arg.vals[KeyOf(last.arg.typ)]]

\* C3: for every record with N >= 1 fields, Insert succeeds, and its column
\* list and its value list are the N fields in declared order, zero-valued
\* fields included.
C3_InsertAllFields ==
    \A e \in Engines :
        (Called("Insert") /\ Len(DeclFields(last.arg.typ)) >= 1) =>
            LET decl == DeclFields(last.arg.typ)
            IN  /\ ret[e].err = ErrNone
                /\ ListedColumns(SqlOf(e)) = [i \in 1..Len(decl) |-> ColumnOf(decl[i])]
                /\ slot[e].values = last.arg.vals

\* C4: the VALUES placeholders of Insert are those of the Engine's dialect for
\* positions 1..N: $1 .. $N on a numbered-dialect Engine, ? on a
\* positional-dialect Engine.
C4_InsertPlaceholdersOfDialect ==
    \A e \in Engines :
        (Called("Insert") /\ ret[e].wrote) =>
            PlaceholderTexts(SqlOf(e))
              = [i \in 1..Len(DeclFields(last.arg.typ)) |->
                   Rendered(engine[e].dbType, i)]

C6_KeyNotInSet ==
    \A e \in Engines :
        (last.op = "Update" /\ ret[e].wrote) =>
            LET cols == BoundColumns(SqlOf(e))
                decl == DeclFields(last.arg.typ)
                k    == KeyOf(last.arg.typ)
                K    == Len(slot[e].values) - 1
            IN  /\ k # 0
                /\ Len(cols) = K + 1
                /\ Len(ret[e].setIdx) = K
                /\ \A i \in 1..K :
                     /\ cols[i] # ColumnOf(decl[k])
                     /\ ret[e].setIdx[i] # k
                     /\ slot[e].values[i] = last.arg.vals[ret[e].setIdx[i]]

\* C6's case: an Update of an Item, whose key is declared between two fields
\* that are both set.
C6_Witness ==
    /\ last.op = "Update"
    /\ last.arg.typ = "Item"
    /\ \A e \in Engines : ret[e].wrote /\ ret[e].setIdx = <<1, 3>>

\* C7: for every input and each builder, the call on a numbered-dialect Engine
\* and the call on a positional-dialect Engine agree on the error, the table
\* name, the columns and their order, and the value list; the two texts are
\* equal once every placeholder is replaced by "?".
C7_DialectChangesPlaceholdersOnly ==
    ( /\ last.op # "none"
      /\ engine[1].dbType = PostgreSQL
      /\ engine[2].dbType = SQLite ) =>
        /\ ret[1].err = ret[2].err
        /\ ret[1].tableStr = ret[2].tableStr
        /\ ret[1].info = ret[2].info
        /\ ret[1].wrote = ret[2].wrote
        /\ ret[1].wrote =>
             /\ slot[1].values = slot[2].values
             /\ ListedColumns(SqlOf(1)) = ListedColumns(SqlOf(2))
             /\ BoundColumns(SqlOf(1)) = BoundColumns(SqlOf(2))
             /\ WithoutNumbers(SqlOf(1)) = WithoutNumbers(SqlOf(2))

\* C7's case: an Update with two SET fields whose texts differ between the two
\* Engines.
C7_Witness ==
    /\ last.op = "Update"
    /\ ret[1].wrote /\ ret[2].wrote
    /\ Len(slot[1].values) = 3
    /\ engine[1].dbType = PostgreSQL
    /\ engine[2].dbType = SQLite
    /\ SqlOf(1) # SqlOf(2)

\* The last call as a newly made Engine of the same configuration runs it.
FreshCall(e) ==
    CASE last.op = "Insert" -> Insert(New(config[e]), last.arg, pre[e].values)
      [] last.op = "Update" -> Update(New(config[e]), last.arg, pre[e].values)
      [] last.op = "Delete" -> Delete(New(config[e]), last.arg, pre[e].values)

\* C8: a call served from the type cache works with the table name and the
\* descriptor that a fresh Engine computes for the record's type, and its
\* statement names the same columns in the same order.
C8_CacheHitSameDescriptor ==
    \A e \in Engines :
        (last.op # "none" /\ ret[e].hit) =>
            LET o == FreshCall(e)
            IN  /\ ~o.hit
                /\ ret[e].tableStr = o.tableStr
                /\ ret[e].info = o.info
                /\ ret[e].wrote = o.wrote
                /\ ret[e].wrote =>
                     LET fresh == Read(BuffText(o.sqlLen), o.eng.convPool)
                     IN  /\ ListedColumns(SqlOf(e)) = ListedColumns(fresh)
                         /\ BoundColumns(SqlOf(e)) = BoundColumns(fresh)

\* C8's case: two calls in a row with two different values of one type, the
\* second served from the cache.
C8_Witness ==
    /\ prev.op # "none"
    /\ prev.arg.typ = last.arg.typ
    /\ prev.arg # last.arg
    /\ \A e \in Engines : ret[e].hit /\ ret[e].wrote

\* C9: whenever a builder returns an error, the caller's SQL text and value
\* list hold exactly what they held before the call.
C9_SlotsKeptOnError ==
    \A e \in Engines :
        (last.op # "none" /\ ret[e].err \notin {ErrNone, Panic}) =>
            /\ SqlOf(e) = pre[e].sql
            /\ slot[e].values = pre[e].values

\* C10: each builder rejects a nil structTable with "no struct table provided",
\* a value that is not a struct with "input is not a struct", and a struct of an
\* unnamed type with "struct does not implement StructNamer interface"; the
\* three builders reject the same inputs with the same error.
C10_SameRejections ==
    \A e \in Engines :
        last.op # "none" =>
            /\ last.arg.typ = "nil"        => ret[e].err = ErrNoStructTable
            /\ last.arg.typ \in OtherTypes => ret[e].err = ErrNotStruct
            /\ last.arg.typ = "Anon"       => ret[e].err = ErrNoStructNamer

\* C11: Update and Delete fail with "struct must have a primary key field"
\* exactly when the record passes validation (and, for Update, has at least one
\* field) and no field satisfies the primary-key naming rule; the call then
\* assigns neither slot and leaves no statement in the buffer.
C11_MissingPrimaryKey ==
    \A e \in Engines :
        last.op \in {"Update", "Delete"} =>
            /\ ret[e].err = ErrNoPrimaryKey
                 <=> /\ IsRecord(last.arg)
                     /\ last.op = "Update" => Len(DeclFields(last.arg.typ)) >= 1
                     /\ KeyOf(last.arg.typ) = 0
            /\ ret[e].err = ErrNoPrimaryKey =>
                 /\ ~ret[e].wrote
                 /\ engine[e].convPool.len = 0
                 /\ slot[e].values = pre[e].values

\* C11's case: a Delete of a Log, which has fields and no key among them,
\* after an Update of a Log.
C11_Witness ==
    /\ last.op = "Delete"
    /\ last.arg.typ = "Log"
    /\ prev.op = "Update"
    /\ prev.arg.typ = "Log"
    /\ \A e \in Engines : ret[e].err = ErrNoPrimaryKey

\* C12: Update fails with "no fields to update" exactly when the record has a
\* primary-key field and every other field is zero (also when the key is the
\* only field), whether the key's own value is zero or not.
C12_NoFieldsToUpdate ==
    \A e \in Engines :
        last.op = "Update" =>
            ( ret[e].err = ErrNoFieldsToUpd
                <=> /\ IsRecord(last.arg)
                    /\ KeyOf(last.arg.typ) # 0
                    /\ Len(NonZeroNonKey(last.arg)) = 0 )

\* C13: Insert and Update on a record whose type has no fields fail with
\* "struct has no fields"; Update reports it rather than the missing key.
C13_NoFields ==
    \A e \in Engines :
        ( /\ last.op \in {"Insert", "Update"}
          /\ IsRecord(last.arg)
          /\ Len(DeclFields(last.arg.typ)) = 0 ) =>
            /\ ret[e].err = ErrNoFields
            /\ ~ret[e].wrote

\* C13's case: an Update of an Empty, which has neither fields nor a key.
C13_Witness ==
    /\ last.op = "Update"
    /\ last.arg.typ = "Empty"
    /\ KeyOf("Empty") = 0
    /\ \A e \in Engines : ret[e].err = ErrNoFields

\* ------------------------------------------------------------------ C14

\* The search of the key, run alone, has returned.
KeySearched == unit.fn = "findIdField" /\ unit.done

\* Field j of the descriptor searched bears a name of the rule.
KeyNamedAt(j) == KeyNamed(unit.tableStr, unit.fields[j].Name)

\* C14 as stated: the search of Update and of Delete takes a field as the
\* primary key if and only if its column name is id, or the table name joined
\* with id or _id in either order.
C14_KeyIffNamed ==
    KeySearched =>
        \A j \in 1..Len(unit.fields) : (unit.out.idIndex = j) <=> KeyNamedAt(j)

\* C14, amended: the field taken as the primary key is the first field in
\* declared order whose column name satisfies the rule, and the search fails
\* with ErrNoPrimaryKey exactly when no field satisfies it.
C14_FirstNamedIsKey ==
    KeySearched =>
        /\ \A j \in 1..Len(unit.fields) :
               (unit.out.idIndex = j)
                 <=> (KeyNamedAt(j) /\ \A h \in 1..(j - 1) : ~KeyNamedAt(h))
        /\ (unit.out.err = ErrNoPrimaryKey)
             <=> ~\E j \in 1..Len(unit.fields) : KeyNamedAt(j)
        /\ unit.out.err \in {ErrNone, ErrNoPrimaryKey}

\* A search among [name, id_user] for the table user took the second field.
C14_Witness ==
    /\ KeySearched
    /\ unit.tableStr = <<"u","s","e","r">>
    /\ Len(unit.fields) = 2
    /\ unit.fields[2].Name = <<"i","d","_","u","s","e","r">>
    /\ ~KeyNamedAt(1)
    /\ unit.out.idIndex = 2
    /\ unit.out.err = ErrNone

\* ------------------------------------------------------------------ C15

\* The words a statement of op opens with, before the table name.
Opening(op) ==
    CASE op = "Insert" -> <<"I","N","S","E","R","T"," ","I","N","T","O"," ">>
      [] op = "Update" -> <<"U","P","D","A","T","E"," ">>
      [] op = "Delete" -> <<"D","E","L","E","T","E"," ","F","R","O","M"," ">>

\* The word of text that starts at position i and ends before the next blank.
RECURSIVE WordFrom(_, _)
WordFrom(text, i) ==
    IF i > Len(text) \/ text[i] = " " THEN <<>>
    ELSE <<text[i]>> \o WordFrom(text, i + 1)

\* The table a statement of op names, or the empty text when the statement
\* does not open as one of op.
StatementTable(op, text) ==
    LET n == Len(Opening(op))
    IN  IF Len(text) >= n /\ SubSeq(text, 1, n) = Opening(op)
        THEN WordFrom(text, n + 1)
        ELSE <<>>

FieldsNamed(op, arg) ==
    CASE op = "Insert" -> [i \in 1..Len(DeclFields(arg.typ)) |-> i]
      [] op = "Update" -> Append(NonZeroNonKey(arg), KeyOf(arg.typ))
      [] op = "Delete" -> <<KeyOf(arg.typ)>>

\* C16: every column name in a generated statement is the lowercased declared
\* name of the corresponding field and nothing else: no underscore is inserted
\* at case boundaries, underscores of the name are kept, and struct tags do
\* not change the name.
C16_ColumnsAreLoweredNames ==
    \A e \in Engines :
        (Called(last.op) /\ ret[e].wrote) =>
            LET decl == DeclFields(last.arg.typ)
                of   == FieldsNamed(last.op, last.arg)
            IN  BoundColumns(SqlOf(e)) = [i \in 1..Len(of) |-> LowerText(decl[of[i]].name)]

\* ------------------------------------------------------------------ C17

\* The number a text of decimal digits denotes.
RECURSIVE NumberOf(_)
NumberOf(digits) ==
    IF Len(digits) = 0 THEN 0
    ELSE 10 * NumberOf(SubSeq(digits, 1, Len(digits) - 1))
           + (CHOOSE n \in 0..9 :
                <<"0","1","2","3","4","5","6","7","8","9">>[n + 1] = digits[Len(digits)])

\* text is the decimal notation of n >= 1: digits only, no leading zero.
IsDecimalOf(text, n) ==
    /\ Len(text) >= 1
    /\ \A i \in 1..Len(text) : IsDigit(text[i])
    /\ text[1] # "0"
    /\ NumberOf(text) = n

\* A placeholder, rendered alone, has returned.
PlaceholderRendered == unit.fn = "placeholder" /\ unit.done

\* What the rendering added to the bytes in use; the empty text when the bytes
\* that were in use are not kept as they were.
Appended ==
    LET before == GetString(unit.conv)
        after  == GetString(unit.out)
    IN  IF Len(after) >= Len(before) /\ SubSeq(after, 1, Len(before)) = before
        THEN SubSeq(after, Len(before) + 1, Len(after))
        ELSE <<>>

\* C17: for every position >= 1 the numbered dialect's placeholder is $ followed
\* by the decimal digits of the position and nothing else, the positional
\* dialect's placeholder is ? whatever the position, and rendering a
\* placeholder only appends to the text buffer.
C17_PlaceholderOfPosition ==
    PlaceholderRendered =>
        /\ Len(GetString(unit.out)) = Len(GetString(unit.conv)) + Len(Appended)
        /\ unit.d = PostgreSQL =>
              /\ Len(Appended) >= 2
              /\ Appended[1] = "$"
              /\ IsDecimalOf(Tail(Appended), unit.index)
        /\ unit.d = SQLite => Appended = <<"?">>

\* Position 100 rendered in the numbered dialect into a buffer one byte from
\* its capacity: the array was replaced and the text in use was kept.
C17_Witness ==
    /\ PlaceholderRendered
    /\ unit.d = PostgreSQL
    /\ unit.index = 100
    /\ unit.conv.len = BuffCap - 1
    /\ unit.out.moved
    /\ Appended = <<"$","1","0","0">>

\* ------------------------------------------------------------------ C18

\* New, run alone, has returned.
EngineMade == unit.fn = "New" /\ unit.done

\* C18: New() with no argument returns an Engine of the numbered-placeholder
\* dialect; New(d) with a dialect value d returns an Engine of dialect d; when
\* the first argument is not a dialect value the Engine is of the
\* numbered-placeholder dialect.
C18_DialectOfNew ==
    EngineMade =>
        /\ Len(unit.configs) = 0 => unit.out.dbType = "postgres"
        /\ (Len(unit.configs) > 0 /\ unit.configs[1].type = "dbType")
              => unit.out.dbType = unit.configs[1].v
        /\ (Len(unit.configs) > 0 /\ unit.configs[1].type # "dbType")
              => unit.out.dbType = "postgres"

\* New("sqlite", SQLite): the first argument is a string, not a dbType, and
\* the Engine is of the numbered dialect.
C18_Witness ==
    /\ EngineMade
    /\ Len(unit.configs) = 2
    /\ unit.configs[1] = OtherValue("sqlite")
    /\ unit.configs[2] = DbTypeValue(SQLite)
    /\ unit.out.dbType = "postgres"

\* ------------------------------------------------------------------ C19

\* The last call as the first call of a newly made Engine of the same
\* configuration, by a caller whose value slot is nil.
FirstCall(e) ==
    CASE last.op = "Insert" -> Insert(New(config[e]), last.arg, <<>>)
      [] last.op = "Update" -> Update(New(config[e]), last.arg, <<>>)
      [] last.op = "Delete" -> Delete(New(config[e]), last.arg, <<>>)

\* The fields whose values the last call of Engine e bound, in the order of its
\* statement: all of them (Insert), the fields it set and then the key
\* (Update), the key (Delete).
FieldsBound(e) ==
    CASE last.op = "Insert" -> [i \in 1..Len(DeclFields(last.arg.typ)) |-> i]
      [] last.op = "Update" -> Append(ret[e].setIdx, ret[e].idIndex)
      [] last.op = "Delete" -> <<ret[e].idIndex>>

\* C19: after a successful builder call the caller's SQL slot and value slot
\* hold only that call's statement and values: what the slots held before, the
\* longer output of an earlier call or a nil value list included, is cleared.
C19_SlotsHoldOnlyThisCall ==
    \A e \in Engines :
        ret[e].wrote =>
            LET o  == FirstCall(e)
                of == FieldsBound(e)
            IN  /\ o.wrote
                /\ SqlOf(e) = SubSeq(o.eng.convPool.arr, 1, o.sqlLen)
                /\ Len(SqlOf(e)) = slot[e].sql.len
                /\ slot[e].values = o.values
                /\ slot[e].values = [i \in 1..Len(of) |-> last.arg.vals[of[i]]]

\* Delete of a User on the slots that hold the longer statement and the three
\* values of an Insert of a User: the slots hold the DELETE and its one value.
C19_Witness ==
    /\ prev.op = "Insert" /\ prev.arg.typ = "User"
    /\ last.op = "Delete" /\ last.arg.typ = "User"
    /\ \A e \in Engines :
          /\ ret[e].wrote
          /\ Len(pre[e].values) = 3
          /\ Len(pre[e].sql) > Len(SqlOf(e))
          /\ slot[e].values = <<last.arg.vals[1]>>
          /\ StatementTable("Delete", SqlOf(e)) = <<"u","s","e","r">>

\* ------------------------------------------------------------------ C20

\* The call caller c made, as a sequential call on its own record: the first
\* call of a newly made Engine of the same configuration.
SequentialCall(c) ==
    LET op  == shared.got[c].op
        arg == shared.got[c].arg
        s   == New(config[SharedEngine])
    IN  CASE op = "Insert" -> Insert(s, arg, <<>>)
          [] op = "Update" -> Update(s, arg, <<>>)
          [] op = "Delete" -> Delete(s, arg, <<>>)

\* What caller c reads in its SQL slot.
SqlRead(c) == Read(slot[c].sql, engine[SharedEngine].convPool)

\* C20: when concurrent callers share one Engine and make each builder call
\* under one lock, every caller obtains the SQL text and the values that a
\* sequential call on its own record produces, and what it obtained is still
\* that text and those values when it uses them after releasing the lock,
\* while the other callers go on calling.
C20_SharedUnderLock ==
    \A c \in Callers :
        (shared.phase[c] \in {"called", "unlocked"} /\ ret[c].wrote) =>
            LET o == SequentialCall(c)
            IN  /\ o.wrote
                /\ SqlRead(c) = SubSeq(o.eng.convPool.arr, 1, o.sqlLen)
                /\ slot[c].values = o.values

\* ------------------------------------------------------------------ C21

\* The Engine, the slots and the return of caller c after the first n of its
\* calls, made one after the other with no other Engine in the process.
RECURSIVE Alone(_, _)
Alone(c, n) ==
    IF n = 0
    THEN [eng |-> New(config[c]), sl |-> InitialSlots[c], ret |-> NoRet]
    ELSE LET p    == Alone(c, n - 1)
             call == shared.hist[c][n]
             o    == CallOn(call.op, p.eng, call.arg, p.sl.values)
         IN  [eng |-> EngineAfter(o), sl |-> SlotAfter(p.sl, o), ret |-> RetOf(o)]

\* C21: each Engine owns its type cache and its text buffer: a builder call on
\* one Engine leaves every other Engine's cache, buffer, dialect and returned
\* outputs as they were, so that callers who each use their own Engine get, in
\* any interleaving, what their calls give when made alone one after the other.
C21_EnginesApart ==
    \A c \in Engines :
        LET a == Alone(c, Len(shared.hist[c]))
        IN  /\ engine[c] = a.eng
            /\ slot[c] = a.sl
            /\ ret[c] = a.ret
            /\ SqlOf(c) = Read(a.sl.sql, a.eng.convPool)

\* Caller 1 inserted a User, then caller 2 deleted a Job: caller 1 still reads
\* its INSERT, and each cache holds the type of its own Engine's call only.
C21_Witness ==
    /\ Len(shared.hist[1]) = 1 /\ Len(shared.hist[2]) = 1
    /\ prev = shared.hist[1][1] /\ last = shared.hist[2][1]
    /\ prev.op = "Insert" /\ prev.arg.typ = "User"
    /\ last.op = "Delete" /\ last.arg.typ = "Job"
    /\ ret[1].wrote /\ ret[2].wrote
    /\ StatementTable("Insert", SqlOf(1)) = <<"u","s","e","r">>
    /\ StatementTable("Delete", SqlOf(2)) = <<"j","o","b">>
    /\ Len(engine[1].typeCache) = 1 /\ engine[1].typeCache[1].typePtr = "User"
    /\ Len(engine[2].typeCache) = 1 /\ engine[2].typeCache[1].typePtr = "Job"

\* ------------------------------------------------------------------ C22

\* The types the cache of Engine e holds, in the order of the entries.
CachedTypes(e) == [i \in 1..Len(engine[e].typeCache) |-> engine[e].typeCache[i].typePtr]

\* The cache of every Engine holds no type twice and no more entries than its
\* capacity, and every entry is the descriptor of its type.
CacheInOrder ==
    \A e \in Engines :
        /\ Len(engine[e].typeCache) <= 16
        /\ \A i, j \in 1..Len(engine[e].typeCache) :
              CachedTypes(e)[i] = CachedTypes(e)[j] => i = j
        /\ \A i \in 1..Len(engine[e].typeCache) :
              engine[e].typeCache[i].info.fields
                = [k \in 1..Len(DeclFields(CachedTypes(e)[i])) |->
                     [Name |-> ColumnOf(DeclFields(CachedTypes(e)[i])[k])]]

\* A step keeps every entry of every cache where it is and as it is.
CacheKept ==
    \A e \in Engines :
        /\ Len(engine'[e].typeCache) >= Len(engine[e].typeCache)
        /\ \A i \in 1..Len(engine[e].typeCache) :
              engine'[e].typeCache[i] = engine[e].typeCache[i]

\* C22: after any sequence of builder calls on one Engine the type cache holds
\* at most one entry per type, its length never exceeds its capacity of 16,
\* and an entry once inserted is never removed, replaced or reordered and its
\* field list never changes.
C22_CacheGrowsOnly == []CacheInOrder /\ [][CacheKept]_vars

\* The cache held 15 types; a call for T16 filled it, and the call for T17 that
\* followed found no entry and left the 16 entries as they were.
C22_Witness ==
    /\ prev.arg = Filler(16) /\ last.arg = Filler(17)
    /\ \A e \in Engines :
          /\ Len(engine[e].typeCache) = 16
          /\ CachedTypes(e)[16] = FillerType(16)
          /\ ~ret[e].hit
          /\ \A i \in 1..16 : CachedTypes(e)[i] # FillerType(17)

\* ------------------------------------------------------------------ C23

\* A step from a state where the cache of Engine e is full: the cache is left
\* as it is; the call hits exactly when the cache holds the record's type, and
\* then works with the cached descriptor; and the error, the text and the
\* values are those of the same call on a newly made Engine, whose cache has
\* room.
FullCacheStep(e) ==
    LET cache == engine[e].typeCache
        t     == last'.arg.typ
        held  == \E i \in 1..Len(cache) : cache[i].typePtr = t
        o     == CallOn(last'.op, New(config[e]), last'.arg, <<>>)
    IN  /\ engine'[e].typeCache = cache
        /\ ret'[e].hit <=> (held /\ ret'[e].tableStr # <<>>)
        /\ ret'[e].hit =>
              \E i \in 1..Len(cache) :
                  cache[i].typePtr = t /\ ret'[e].info = cache[i].info
        /\ ret'[e].err = o.err
        /\ ret'[e].wrote = o.wrote
        /\ o.wrote =>
              /\ Read(slot'[e].sql, engine'[e].convPool)
                   = SubSeq(o.eng.convPool.arr, 1, o.sqlLen)
              /\ slot'[e].values = o.values

\* C23: when the type cache is full, a builder call with a record of a type
\* not in the cache returns the same result (error kind, SQL text, values) as
\* on an Engine with room in its cache and leaves the cache contents
\* unchanged; calls with cached types keep hitting their entries.
C23_FullCacheSameResult ==
    [][\A e \in Engines : Len(engine[e].typeCache) = 16 => FullCacheStep(e)]_vars

\* On a cache that holds T1 .. T16, Delete for T1 hit its entry, then Insert of
\* a User, a type the cache does not hold, wrote its statement uncached.
C23_Witness ==
    /\ prev = [op |-> "Delete", arg |-> Filler(1)]
    /\ last.op = "Insert" /\ last.arg.typ = "User"
    /\ \A e \in Engines :
          /\ Len(engine[e].typeCache) = 16
          /\ \A i \in 1..16 : engine[e].typeCache[i].typePtr = FillerType(i)
          /\ ~ret[e].hit
          /\ ret[e].wrote
          /\ StatementTable("Insert", SqlOf(e)) = <<"u","s","e","r">>

\* ------------------------------------------------------------------ C24

\* C24: the result of a builder call (success or error kind, SQL text, value
\* list) is a function of the record and the Engine's dialect only: after any
\* sequence of earlier successful or failed calls on the Engine it is what the
\* call gives on a newly constructed Engine of that dialect, and the text holds
\* nothing of an earlier call's text.
C24_ResultOfRecordAndDialect ==
    \A e \in Engines :
        last.op # "none" =>
            LET o == CallOn(last.op,
                            [typeCache |-> <<>>, convPool |-> NewConv,
                             dbType |-> engine[e].dbType],
                            last.arg, <<>>)
            IN  /\ ret[e].err = o.err
                /\ ret[e].wrote = o.wrote
                /\ ret[e].wrote =>
                      /\ SqlOf(e) = GetString(o.eng.convPool)
                      /\ slot[e].values = o.values

\* Update of a Log failed after it had used the buffer, and the Delete of a
\* User that followed, on a cache that holds 16 other types, wrote the DELETE
\* of a new Engine.
C24_Witness ==
    /\ prev.op = "Update" /\ prev.arg.typ = "Log"
    /\ last.op = "Delete" /\ last.arg.typ = "User"
    /\ \A e \in Engines :
          /\ Len(engine[e].typeCache) = 16
          /\ ret[e].wrote
          /\ ~ret[e].hit
          /\ slot[e].sql.len = Len(S_DELETE_FROM) + 4 + Len(S_WHERE_id) + Len(Rendered(engine[e].dbType, 1))
          /\ slot[e].values = <<last.arg.vals[1]>>

\* ------------------------------------------------------------------ C25

\* Caller c's Delete returned a text that is not the text of the same call
\* made alone on a newly made Engine.
NotOwnText(c) ==
    /\ shared.phase[c] = "done"
    /\ ret[c].wrote
    /\ shared.loc[c].text
         # GetString(CallOn("Delete", New(config[SharedEngine]), shared.got[c].arg, <<>>)
                       .eng.convPool)

\* The cache of the shared Engine holds two entries for one type.
TypeTwice ==
    \E i, j \in 1..Len(engine[SharedEngine].typeCache) :
        /\ i # j
        /\ engine[SharedEngine].typeCache[i].typePtr
             = engine[SharedEngine].typeCache[j].typePtr

\* C25: two builder calls on one Engine without mutual exclusion can interleave
\* so that a caller receives a text that is not the text of its own sequential
\* call, or so that the cache holds two entries for one type. Both happen
\* (C25_Witness), and they happen only when statements of the two calls were
\* interleaved: calls that run one after the other give neither.
C25_OnlyWhenInterleaved ==
    ((\E c \in Callers : NotOwnText(c)) \/ TypeTwice) => shared.mixed

\* Both callers deleted a User at once: each missed the cache and stored a
\* descriptor, and caller 1 received a text that is not its DELETE.
C25_Witness ==
    /\ shared.got[1].arg.typ = "User" /\ shared.got[2].arg.typ = "User"
    /\ shared.mixed
    /\ TypeTwice
    /\ NotOwnText(1)

\* ------------------------------------------------------------------ C26

\* The fields of type t whose column satisfies the primary-key naming rule, in
\* declared order.
KeyNamedFields(t) ==
    SelectSeq([i \in 1..Len(DeclFields(t)) |-> i],
              LAMBDA i : KeyNamed(TableOf(t), ColumnOf(DeclFields(t)[i])))

\* The last call was made with a record of which several fields satisfy the
\* primary-key naming rule.
SeveralKeysCalled(op) ==
    /\ Called(op)
    /\ Len(KeyNamedFields(last.arg.typ)) >= 2

\* The fields of arg beside field k whose value is not zero, in declared order.
OrdinaryFields(arg, k) ==
    SelectSeq([i \in 1..Len(DeclFields(arg.typ)) |-> i],
              LAMBDA i : i # k /\ ~ZeroValued(arg.vals[i]))

\* C26: when several fields of a record satisfy the primary-key naming rule,
\* Update and Delete take the first of them in declared order as the key. Delete
\* returns that field's value alone. Update treats every later matching field
\* as an ordinary field: it is in the SET list, at its declared place, exactly
\* when its value is not zero, and the value appended last, as the key, is the
\* first matching field's, zero or not.
C26_FirstMatchIsKey ==
    \A e \in Engines :
        LET first == KeyNamedFields(last.arg.typ)[1]
            decl  == DeclFields(last.arg.typ)
            set   == OrdinaryFields(last.arg, first)
        IN  /\ SeveralKeysCalled("Delete") =>
                 /\ ret[e].wrote
                 /\ ret[e].idIndex = first
                 /\ slot[e].values = <<last.arg.vals[first]>>
            /\ SeveralKeysCalled("Update") =>
                 /\ ret[e].idIndex = first
                 /\ ret[e].wrote <=> Len(set) > 0
                 /\ ~ret[e].wrote => ret[e].err = ErrNoFieldsToUpd
                 /\ ret[e].wrote =>
                      /\ SubSeq(BoundColumns(SqlOf(e)), 1, Len(set))
                           = [j \in 1..Len(set) |-> ColumnOf(decl[set[j]])]
                      /\ Len(BoundColumns(SqlOf(e))) = Len(set) + 1
                      /\ slot[e].values
                           = [j \in 1..Len(set) |-> last.arg.vals[set[j]]]
                               \o <<last.arg.vals[first]>>

\* C26's case: an Update of Dual{DualID: 0, ID: 6}, both of whose fields bear a
\* key name: the second is set, the first, zero, is the key.
C26_Witness ==
    /\ last.op = "Update"
    /\ last.arg = Arg("Dual", <<IntV(0), IntV(6)>>)
    /\ KeyNamedFields("Dual") = <<1, 2>>
    /\ \A e \in Engines :
         /\ ret[e].wrote
         /\ BoundColumns(SqlOf(e))[1] = <<"i","d">>
         /\ slot[e].values = <<IntV(6), IntV(0)>>

\* ------------------------------------------------------------------ C27

\* The classifier, run alone, has returned.
Classified == unit.fn = "IsZero" /\ unit.done

\* C27: the classifier Update uses answers for every value, and it answers zero
\* exactly for a number equal to 0 (of every width, judged on the field's own
\* value), an empty text, a false boolean, an absent pointer or interface, a
\* slice or map that is absent or of length zero, and a nested record whose
\* fields are all zero in turn; a value of a kind it does not know is not zero;
\* Update puts a field in the SET list exactly when its value is not zero.
C27_ZeroExactlyByKind ==
    Classified =>
        /\ unit.zero \in BOOLEAN
        /\ unit.zero <=> ZeroValued(unit.value)
        /\ unit.set = IF ZeroValued(unit.value) THEN <<>> ELSE <<2>>

\* ------------------------------------------------------------------ C28

\* Caller c holds the text of a successful call of its own.
HoldsText(c) == shared.got[c].op # "none" /\ ret[c].wrote

\* The text that call produced: that of the same call made first on a newly
\* made Engine.
TextReturned(c) ==
    LET o == SequentialCall(c)
    IN  SubSeq(o.eng.convPool.arr, 1, o.sqlLen)

\* C28: a SQL text handed back by a successful builder call keeps its content
\* after any later builder call on the same Engine, whether the later call
\* succeeds or fails.
C28_ReturnedTextKept ==
    \A c \in Callers : HoldsText(c) => SqlRead(c) = TextReturned(c)

\* ------------------------------------------------------------------ C29

\* The column compared in the WHERE clause of text: the name before the "=" of
\* the last placeholder.
WhereColumn(text) ==
    LET cols == BoundColumns(text)
    IN  IF Len(cols) = 0 THEN <<>> ELSE cols[Len(cols)]

\* C29: in every statement of Update or Delete the column compared in the WHERE
\* clause is the column of the field resolved as the primary key, the field
\* whose value is the last value (Update) or the only value (Delete), also when
\* that column is not id.
C29_WhereNamesTheKey ==
    \A e \in Engines :
        (last.op \in {"Update", "Delete"} /\ ret[e].wrote) =>
            LET decl == DeclFields(last.arg.typ)
                k    == KeyOf(last.arg.typ)
            IN  /\ k # 0
                /\ ret[e].idIndex = k
                /\ slot[e].values[Len(slot[e].values)] = last.arg.vals[k]
                /\ last.op = "Delete" => Len(slot[e].values) = 1
                /\ WhereColumn(SqlOf(e)) = ColumnOf(decl[k])

\* ------------------------------------------------------------------ C30

\* The ways a builder call ends that the specification names: success, or one
\* of the errors returned to the caller.
DocumentedEnds ==
    { ErrNone, ErrNoStructTable, ErrNotStruct, ErrNoStructNamer, ErrNoFields,
      ErrNoPrimaryKey, ErrNoFieldsToUpd }

\* C30: Insert and Update end, for a record of any number of fields, with
\* success or with one of the documented errors; a record of more than 32
\* fields (Insert), or of more than 32 non-zero fields beside the key (Update),
\* is processed like any other: Insert names every field, Update sets every
\* non-zero field beside the key.
C30_AnyNumberOfFields ==
    \A e \in Engines :
        Called("Insert") \/ Called("Update") =>
            /\ ret[e].err \in DocumentedEnds
            /\ ( /\ last.op = "Insert"
                 /\ Len(DeclFields(last.arg.typ)) > MaxColumns ) =>
                   /\ ret[e].wrote
                   /\ Len(slot[e].values) = Len(DeclFields(last.arg.typ))
            /\ ( /\ last.op = "Update"
                 /\ KeyOf(last.arg.typ) # 0
                 /\ Len(NonZeroNonKey(last.arg)) > MaxColumns ) =>
                   /\ ret[e].wrote
                   /\ Len(slot[e].values) = Len(NonZeroNonKey(last.arg)) + 1

====
